---- MODULE Spec2Model ----
(***************************************************************************)
(* Subscription Manager: money representation, aggregation and display     *)
(* formatting (lib/utils.ts, lib/constants.ts), form validation            *)
(* (lib/validations.ts), the database module (db/index.ts), the server     *)
(* actions on the subscriptions table (app/actions.ts, db/schema.ts), the  *)
(* list with optimistic deletion (subscription-list.tsx) and the add       *)
(* dialog (add-subscription-button.tsx).                                   *)
(*                                                                         *)
(* JavaScript numbers are IEEE-754 binary64 values.  A non-negative finite *)
(* number is modelled exactly as mantissa * 2^exponent with a 53-bit       *)
(* mantissa; the mantissa does not fit TLC's 32-bit integers and is kept   *)
(* as a little-endian sequence of base-2^15 limbs.  Every arithmetic       *)
(* operator rounds to nearest, ties to even, as the hardware does.         *)
(***************************************************************************)
EXTENDS Integers, Sequences, FiniteSets, TLC

(***************************************************************************)
(* Natural numbers of arbitrary size: little-endian limbs, no high zeros.  *)
(***************************************************************************)
LimbBits == 15

LimbBase == 32768

RECURSIVE Pow2(_)
Pow2(k) == IF k = 0 THEN 1 ELSE 2 * Pow2(k - 1)

RECURSIVE Pow10(_)
Pow10(k) == IF k = 0 THEN 1 ELSE 10 * Pow10(k - 1)

RECURSIVE IntBitLen(_)
IntBitLen(n) == IF n = 0 THEN 0 ELSE 1 + IntBitLen(n \div 2)

RECURSIVE BNorm(_)
BNorm(a) ==
    IF a = <<>> THEN <<>>
    ELSE IF a[Len(a)] = 0 THEN BNorm(SubSeq(a, 1, Len(a) - 1))
    ELSE a

RECURSIVE BFromInt(_)
BFromInt(n) ==
    IF n = 0 THEN <<>> ELSE <<n % LimbBase>> \o BFromInt(n \div LimbBase)

\* defined for values below 2^31
BToInt(a) ==
    IF Len(a) = 0 THEN 0
    ELSE IF Len(a) = 1 THEN a[1]
    ELSE IF Len(a) = 2 THEN a[1] + LimbBase * a[2]
    ELSE a[1] + LimbBase * a[2] + LimbBase * LimbBase * a[3]

BFitsInt(a) == Len(a) <= 2 \/ (Len(a) = 3 /\ a[3] <= 1)

BitLen(a) ==
    IF a = <<>> THEN 0 ELSE LimbBits * (Len(a) - 1) + IntBitLen(a[Len(a)])

RECURSIVE BCmpFrom(_, _, _)
BCmpFrom(a, b, i) ==
    IF i = 0 THEN 0
    ELSE IF a[i] < b[i] THEN -1
    ELSE IF a[i] > b[i] THEN 1
    ELSE BCmpFrom(a, b, i - 1)

BCmp(a, b) ==
    IF Len(a) < Len(b) THEN -1
    ELSE IF Len(a) > Len(b) THEN 1
    ELSE BCmpFrom(a, b, Len(a))

BLimb(a, i) == IF i <= Len(a) THEN a[i] ELSE 0

RECURSIVE BAddFrom(_, _, _, _)
BAddFrom(a, b, i, carry) ==
    IF i > Len(a) /\ i > Len(b) THEN BFromInt(carry)
    ELSE LET v == BLimb(a, i) + BLimb(b, i) + carry
         IN  <<v % LimbBase>> \o BAddFrom(a, b, i + 1, v \div LimbBase)

BAdd(a, b) == BAddFrom(a, b, 1, 0)

RECURSIVE BSubFrom(_, _, _, _)
BSubFrom(a, b, i, borrow) ==
    IF i > Len(a) THEN <<>>
    ELSE LET v == a[i] - BLimb(b, i) - borrow
         IN  IF v < 0 THEN <<v + LimbBase>> \o BSubFrom(a, b, i + 1, 1)
             ELSE <<v>> \o BSubFrom(a, b, i + 1, 0)

\* a - b for a >= b
BSub(a, b) == BNorm(BSubFrom(a, b, 1, 0))

RECURSIVE BMulFrom(_, _, _, _)
BMulFrom(a, k, i, carry) ==
    IF i > Len(a) THEN BFromInt(carry)
    ELSE LET v == a[i] * k + carry
         IN  <<v % LimbBase>> \o BMulFrom(a, k, i + 1, v \div LimbBase)

\* a * k for 0 <= k <= LimbBase
BMulSmall(a, k) == IF k = 0 THEN <<>> ELSE BMulFrom(a, k, 1, 0)

RECURSIVE BDivFrom(_, _, _, _)
BDivFrom(a, c, i, rem) ==
    IF i = 0 THEN [q |-> <<>>, r |-> rem]
    ELSE LET v    == rem * LimbBase + a[i]
             rest == BDivFrom(a, c, i - 1, v % c)
         IN  [q |-> rest.q \o <<v \div c>>, r |-> rest.r]

\* quotient and remainder of a by c, 0 < c <= LimbBase
BDivSmall(a, c) ==
    LET d == BDivFrom(a, c, Len(a), 0) IN [q |-> BNorm(d.q), r |-> d.r]

ZeroLimbs(n) == [i \in 1..n |-> 0]

\* a * 2^k
BShl(a, k) ==
    IF a = <<>> THEN <<>>
    ELSE ZeroLimbs(k \div LimbBits) \o BMulSmall(a, Pow2(k % LimbBits))

\* floor(a / 2^k)
BShr(a, k) ==
    IF k \div LimbBits >= Len(a) THEN <<>>
    ELSE BDivSmall(SubSeq(a, k \div LimbBits + 1, Len(a)), Pow2(k % LimbBits)).q

\* a mod 2^k
BLow(a, k) ==
    LET n == k \div LimbBits
    IN  IF n >= Len(a) THEN a
        ELSE BNorm(SubSeq(a, 1, n) \o <<a[n + 1] % Pow2(k % LimbBits)>>)

BIsOdd(a) == a # <<>> /\ a[1] % 2 = 1

(***************************************************************************)
(* JavaScript values.  A number is NaN or a non-negative finite binary64   *)
(* value m * 2^e, canonical: zero has m = <<>> and e = 0, every other      *)
(* value has 2^52 <= m < 2^53, so that = on numbers is numeric equality.   *)
(* Negative numbers, infinities and subnormals are outside the input       *)
(* domain of the money functions (amounts are validated non-negative).     *)
(***************************************************************************)
MantissaBits == 53

Undefined == [undefined |-> TRUE]

NumNaN == [nan |-> TRUE, m |-> <<>>, e |-> 0]

NumZero == [nan |-> FALSE, m |-> <<>>, e |-> 0]

\* the binary64 value nearest to p * 2^s / c (ties to even), 0 < c <= LimbBase
RoundToNumber(p, c, s) ==
    IF p = <<>> THEN NumZero
    ELSE LET need == MantissaBits + 1 + IntBitLen(c) - BitLen(p)
             t    == IF need > 0 THEN need ELSE 0
             d    == BDivSmall(BShl(p, t), c)
             k    == BitLen(d.q) - MantissaBits
             kept == BShr(d.q, k)
             cmp  == BCmp(BLow(d.q, k), BShl(<<1>>, k - 1))
             up   == cmp = 1 \/ (cmp = 0 /\ (d.r > 0 \/ BIsOdd(kept)))
             m    == IF up THEN BAdd(kept, <<1>>) ELSE kept
         IN  IF BitLen(m) > MantissaBits
             THEN [nan |-> FALSE, m |-> BShr(m, 1), e |-> s - t + k + 1]
             ELSE [nan |-> FALSE, m |-> m, e |-> s - t + k]

NumFromInt(n) == RoundToNumber(BFromInt(n), 1, 0)

\* a numeric literal n / 10^k, e.g. 9.995 is NumberLiteral(9995, 3)
NumberLiteral(n, k) == RoundToNumber(BFromInt(n), Pow10(k), 0)

NumIsInteger(x) ==
    /\ ~x.nan
    /\ (x.e >= 0 \/ BLow(x.m, -x.e) = <<>>)

\* the integer value of an integral number
NumToBig(x) == IF x.e >= 0 THEN BShl(x.m, x.e) ELSE BShr(x.m, -x.e)

NumToInt(x) == BToInt(NumToBig(x))

\* x / y for a divisor that is NaN or a positive integer up to LimbBase
NumDivide(x, y) ==
    IF x.nan \/ y.nan THEN NumNaN
    ELSE RoundToNumber(x.m, NumToInt(y), x.e)

\* x * y for a factor that is NaN or a positive integer up to LimbBase
NumTimes(x, y) ==
    IF x.nan \/ y.nan THEN NumNaN
    ELSE RoundToNumber(BMulSmall(x.m, NumToInt(y)), 1, x.e)

NumPlus(x, y) ==
    IF x.nan \/ y.nan THEN NumNaN
    ELSE IF x.m = <<>> THEN y
    ELSE IF y.m = <<>> THEN x
    ELSE LET e == IF x.e < y.e THEN x.e ELSE y.e
         IN  RoundToNumber(BAdd(BShl(x.m, x.e - e), BShl(y.m, y.e - e)), 1, e)

\* Math.pow(10, d): d is a number or undefined
MathPow10(d) ==
    IF d = Undefined THEN NumNaN
    ELSE IF d.nan THEN NumNaN
    ELSE NumFromInt(Pow10(NumToInt(d)))

\* Math.round(x) = floor(x + 1/2), computed exactly
MathRound(x) ==
    IF x.nan THEN NumNaN
    ELSE IF x.e >= 0 THEN x
    ELSE RoundToNumber(BShr(BAdd(x.m, BShl(<<1>>, -x.e - 1)), -x.e), 1, 0)

(***************************************************************************)
(* Strings are sequences of one-character strings.                         *)
(***************************************************************************)
DigitChars == <<"0", "1", "2", "3", "4", "5", "6", "7", "8", "9">>

IsDigitChar(ch) == \E i \in 1..10 : DigitChars[i] = ch

DigitValue(ch) == (CHOOSE i \in 1..10 : DigitChars[i] = ch) - 1

RECURSIVE DecimalDigits(_)
DecimalDigits(n) ==
    IF n = <<>> THEN <<>>
    ELSE LET d == BDivSmall(n, 10)
         IN  DecimalDigits(d.q) \o <<DigitChars[d.r + 1]>>

\* toFixed that cuts the digits after the f-th instead of rounding
NumToFixedTruncating(x, fractionDigits) ==
    IF x.nan THEN <<"N", "a", "N">>
    ELSE LET f      == IF fractionDigits = Undefined THEN 0
                       ELSE NumToInt(fractionDigits)
             p      == BMulSmall(x.m, Pow10(f))
             n      == IF x.e >= 0 THEN BShl(p, x.e) ELSE BShr(p, -x.e)
             raw    == DecimalDigits(n)
             pad    == IF Len(raw) > f THEN 0 ELSE f + 1 - Len(raw)
             digits == [i \in 1..pad |-> "0"] \o raw
             cut    == Len(digits) - f
         IN  IF f = 0 THEN digits
             ELSE SubSeq(digits, 1, cut) \o <<".">>
                      \o SubSeq(digits, cut + 1, Len(digits))

\* Number.prototype.toFixed(fractionDigits) for 0 <= x < 10^21:
\* the integer n nearest to x * 10^f (the larger one on a tie), printed with
\* f digits after the point.  An undefined fractionDigits counts as 0.
NumToFixed(x, fractionDigits) ==
    IF x.nan THEN <<"N", "a", "N">>
    ELSE LET f      == IF fractionDigits = Undefined THEN 0
                       ELSE NumToInt(fractionDigits)
             p      == BMulSmall(x.m, Pow10(f))
             n      == IF x.e >= 0 THEN BShl(p, x.e)
                       ELSE BShr(BAdd(p, BShl(<<1>>, -x.e - 1)), -x.e)
             raw    == DecimalDigits(n)
             pad    == IF Len(raw) > f THEN 0 ELSE f + 1 - Len(raw)
             digits == [i \in 1..pad |-> "0"] \o raw
             cut    == Len(digits) - f
         IN  IF f = 0 THEN digits
             ELSE SubSeq(digits, 1, cut) \o <<".">>
                      \o SubSeq(digits, cut + 1, Len(digits))

\* String.prototype.replace(pattern, replacement) with string arguments:
\* only the first occurrence of the one-character pattern is replaced
StringReplace(s, pattern, replacement) ==
    IF \E i \in 1..Len(s) : s[i] = pattern
    THEN LET i == CHOOSE j \in 1..Len(s) :
                      s[j] = pattern /\ \A h \in 1..(j - 1) : s[h] # pattern
         IN  SubSeq(s, 1, i - 1) \o replacement \o SubSeq(s, i + 1, Len(s))
    ELSE s

RECURSIVE ParseDigits(_, _, _)
ParseDigits(s, i, acc) ==
    IF i > Len(s) \/ ~IsDigitChar(s[i]) THEN acc
    ELSE ParseDigits(s, i + 1, BAdd(BMulSmall(acc, 10), BFromInt(DigitValue(s[i]))))

\* parseInt(s, 10) for a string without sign or leading blanks: the leading
\* digits, NaN when there are none
ParseInt(s) ==
    IF s = <<>> \/ ~IsDigitChar(s[1]) THEN NumNaN
    ELSE RoundToNumber(ParseDigits(s, 1, <<>>), 1, 0)

(***************************************************************************)
(* lib/constants.ts                                                        *)
(***************************************************************************)
SUBSCRIPTION_CYCLES == [monthly |-> "monthly", yearly |-> "yearly"]

\* the registry with JPY given two minor-unit digits
CURRENCIES_JPYTwoDecimals ==
    [JPY |-> [code |-> "JPY", symbol |-> "yen",  decimals |-> NumFromInt(2)],
     USD |-> [code |-> "USD", symbol |-> "$",    decimals |-> NumFromInt(2)],
     EUR |-> [code |-> "EUR", symbol |-> "euro", decimals |-> NumFromInt(2)]]

CURRENCIES ==
    [JPY |-> [code |-> "JPY", symbol |-> "yen",  decimals |-> NumFromInt(0)],
     USD |-> [code |-> "USD", symbol |-> "$",    decimals |-> NumFromInt(2)],
     EUR |-> [code |-> "EUR", symbol |-> "euro", decimals |-> NumFromInt(2)]]

\* type CurrencyCode = keyof typeof CURRENCIES
CurrencyCode == DOMAIN CURRENCIES

(***************************************************************************)
(* Property access on an object literal.  obj[key] finds the object's own  *)
(* properties and, failing that, the members every object inherits from    *)
(* Object.prototype; only a key found in neither place yields undefined.   *)
(* An inherited member is a function object without a decimals property.   *)
(***************************************************************************)
ObjectPrototypeKeys ==
    {"constructor", "toString", "toLocaleString", "valueOf",
     "hasOwnProperty", "isPrototypeOf", "propertyIsEnumerable", "__proto__"}

InheritedMember == [inherited |-> TRUE]

PropertyGet(obj, key) ==
    IF key \in DOMAIN obj THEN obj[key]
    ELSE IF key \in ObjectPrototypeKeys THEN InheritedMember
    ELSE Undefined

\* a ?? b
NullishCoalesce(a, b) == IF a = Undefined THEN b ELSE a

\* Object.prototype.hasOwnProperty
HasOwnProperty(obj, key) == key \in DOMAIN obj

\* CURRENCIES[currency as CurrencyCode] ?? CURRENCIES.JPY
CurrencyConfig(currency) ==
    NullishCoalesce(PropertyGet(CURRENCIES, currency), CURRENCIES.JPY)

\* config.decimals
ConfigDecimals(config) == PropertyGet(config, "decimals")

(***************************************************************************)
(* lib/utils.ts                                                            *)
(***************************************************************************)
convertAmountFromMinorUnits(amount, currency) ==
    LET config == CurrencyConfig(currency)
    IN  NumDivide(amount, MathPow10(ConfigDecimals(config)))

\* Math.floor(x)
MathFloor(x) ==
    IF x.nan THEN NumNaN
    ELSE IF x.e >= 0 THEN x
    ELSE RoundToNumber(BShr(x.m, -x.e), 1, 0)

\* the conversion by floating-point multiplication: Math.floor(amount * 10^d)
convertAmountToMinorUnitsByMultiplying(amount, currency) ==
    LET config == NullishCoalesce(PropertyGet(CURRENCIES, currency), CURRENCIES.JPY)
    IN  MathFloor(NumTimes(amount, MathPow10(PropertyGet(config, "decimals"))))

convertAmountToMinorUnits(amount, currency) ==
    LET config        == CurrencyConfig(currency)
        fixedString   == NumToFixed(amount, ConfigDecimals(config))
        integerString == StringReplace(fixedString, ".", <<>>)
    IN  ParseInt(integerString)

\* const totals: AggregatedTotals = { JPY: 0, USD: 0, EUR: 0 }
InitialTotals == [JPY |-> NumZero, USD |-> NumZero, EUR |-> NumZero]

\* the yearly branch: Math.round((actualPrice / 12) * 100) / 100
YearlyToMonthly(actualPrice) ==
    NumDivide(MathRound(NumTimes(NumDivide(actualPrice, NumFromInt(12)),
                                 NumFromInt(100))),
              NumFromInt(100))

\* the callback without its hasOwnProperty guard: undefined + n is NaN and
\* the assignment creates the key
AggregateOneUnguarded(totals, sub) ==
    LET actualPrice  == NumDivide(NumFromInt(sub.price),
                            MathPow10(PropertyGet(
                                NullishCoalesce(PropertyGet(CURRENCIES, sub.currency),
                                                CURRENCIES.JPY), "decimals")))
        monthlyPrice == IF sub.cycle = "yearly"
                        THEN NumDivide(MathRound(NumTimes(
                                 NumDivide(actualPrice, NumFromInt(12)),
                                 NumFromInt(100))), NumFromInt(100))
                        ELSE actualPrice
    IN  [k \in DOMAIN totals \cup {sub.currency} |->
            IF k # sub.currency THEN totals[k]
            ELSE IF k \in DOMAIN totals THEN NumPlus(totals[k], monthlyPrice)
            ELSE NumNaN]

\* the callback counting a record of an unregistered currency as JPY
AggregateOneDefaultJPY(totals, sub) ==
    LET cur          == IF sub.currency \in DOMAIN totals THEN sub.currency ELSE "JPY"
        actualPrice  == NumDivide(NumFromInt(sub.price),
                                  MathPow10(PropertyGet(CURRENCIES[cur], "decimals")))
        monthlyPrice == IF sub.cycle = "yearly"
                        THEN NumDivide(MathRound(NumTimes(
                                 NumDivide(actualPrice, NumFromInt(12)),
                                 NumFromInt(100))), NumFromInt(100))
                        ELSE actualPrice
    IN  [totals EXCEPT ![cur] = NumPlus(@, monthlyPrice)]

\* the callback of an aggregator that counts active subscriptions only
AggregateOneActiveOnly(totals, sub) ==
    IF ~sub.isActive \/ sub.currency \notin DOMAIN totals THEN totals
    ELSE LET d            == PropertyGet(CURRENCIES[sub.currency], "decimals")
             actualPrice  == NumDivide(NumFromInt(sub.price), MathPow10(d))
             monthlyPrice == IF sub.cycle = "yearly"
                             THEN NumDivide(MathRound(NumTimes(
                                      NumDivide(actualPrice, NumFromInt(12)),
                                      NumFromInt(100))), NumFromInt(100))
                             ELSE actualPrice
         IN  [totals EXCEPT ![sub.currency] = NumPlus(@, monthlyPrice)]

\* the callback assigning the record's value instead of adding it
AggregateOneOverwriting(totals, sub) ==
    IF sub.currency \notin DOMAIN totals THEN totals
    ELSE LET d            == PropertyGet(CURRENCIES[sub.currency], "decimals")
             actualPrice  == NumDivide(NumFromInt(sub.price), MathPow10(d))
             monthlyPrice == IF sub.cycle = "yearly"
                             THEN NumDivide(MathRound(NumTimes(
                                      NumDivide(actualPrice, NumFromInt(12)),
                                      NumFromInt(100))), NumFromInt(100))
                             ELSE actualPrice
         IN  [totals EXCEPT ![sub.currency] = monthlyPrice]

\* the body of the forEach callback, applied to one subscription
AggregateOne(totals, sub) ==
    IF ~HasOwnProperty(totals, sub.currency) THEN totals
    ELSE LET actualPrice  == convertAmountFromMinorUnits(NumFromInt(sub.price),
                                                         sub.currency)
             monthlyPrice == IF sub.cycle = SUBSCRIPTION_CYCLES.yearly
                             THEN YearlyToMonthly(actualPrice)
                             ELSE actualPrice
         IN  [totals EXCEPT ![sub.currency] = NumPlus(@, monthlyPrice)]

\* a loop that stops at the first record of an unregistered currency
\* (a return inside for...of instead of inside the forEach callback)
RECURSIVE ForEachUntilUnknown(_, _, _)
ForEachUntilUnknown(totals, subs, i) ==
    IF i > Len(subs) THEN totals
    ELSE IF subs[i].currency \notin DOMAIN totals THEN totals
    ELSE LET d            == PropertyGet(CURRENCIES[subs[i].currency], "decimals")
             actualPrice  == NumDivide(NumFromInt(subs[i].price), MathPow10(d))
             monthlyPrice == IF subs[i].cycle = "yearly"
                             THEN NumDivide(MathRound(NumTimes(
                                      NumDivide(actualPrice, NumFromInt(12)),
                                      NumFromInt(100))), NumFromInt(100))
                             ELSE actualPrice
         IN  ForEachUntilUnknown(
                 [totals EXCEPT ![subs[i].currency] = NumPlus(@, monthlyPrice)],
                 subs, i + 1)

RECURSIVE ForEachFrom(_, _, _)
ForEachFrom(totals, subs, i) ==
    IF i > Len(subs) THEN totals
    ELSE ForEachFrom(AggregateOne(totals, subs[i]), subs, i + 1)

calculateMonthlyAggregations(subs) == ForEachFrom(InitialTotals, subs, 1)

(***************************************************************************)
(* Intl.NumberFormat('ja-JP', {style: 'currency', currency}) as ECMA-402    *)
(* defines it: the constructor throws a RangeError unless the code is      *)
(* three letters; the number of fraction digits is the ISO 4217 minor unit *)
(* of that code (2 when the code is not listed), never the registry's; the *)
(* integer part is grouped in threes.  Strings are sequences of            *)
(* characters; the tokens "yen", "euro" and "pound" stand for the one      *)
(* character the locale prints for that currency.                          *)
(***************************************************************************)
RangeError == [error |-> "RangeError"]

\* the codes among the inputs that are three letters
WellFormedCurrencyCodes == {"JPY", "USD", "EUR", "GBP"}

IsWellFormedCurrencyCode(code) == code \in WellFormedCurrencyCodes

\* CurrencyDigits(currency)
IntlCurrencyDigits(code) == IF code = "JPY" THEN 0 ELSE 2

IntlCurrencySymbol(code) ==
    CASE code = "JPY" -> "yen"
      [] code = "USD" -> "$"
      [] code = "EUR" -> "euro"
      [] code = "GBP" -> "pound"
      [] OTHER        -> code

\* useGrouping: a comma before every group of three digits
RECURSIVE GroupDigits(_)
GroupDigits(s) ==
    IF Len(s) <= 3 THEN s
    ELSE GroupDigits(SubSeq(s, 1, Len(s) - 3)) \o <<",">>
             \o SubSeq(s, Len(s) - 2, Len(s))

\* new Intl.NumberFormat('ja-JP', {style: 'currency', currency}).format(amount)
\* for 0 <= amount < 10^21 or NaN
IntlNumberFormat(amount, code) ==
    IF ~IsWellFormedCurrencyCode(code) THEN RangeError
    ELSE IF amount.nan THEN <<IntlCurrencySymbol(code), "N", "a", "N">>
    ELSE LET d     == IntlCurrencyDigits(code)
             fixed == NumToFixed(amount, NumFromInt(d))
             whole == Len(fixed) - (IF d = 0 THEN 0 ELSE d + 1)
         IN  <<IntlCurrencySymbol(code)>>
                 \o GroupDigits(SubSeq(fixed, 1, whole))
                 \o SubSeq(fixed, whole + 1, Len(fixed))

formatDisplayPrice(amount, currency) == IntlNumberFormat(amount, currency)

\* a formatter that prints the stored integer as it is
formatCurrencyUnconverted(amountFromDb, currency) ==
    formatDisplayPrice(amountFromDb, currency)

formatCurrency(amountFromDb, currency) ==
    LET actualAmount == convertAmountFromMinorUnits(amountFromDb, currency)
    IN  formatDisplayPrice(actualAmount, currency)

(***************************************************************************)
(* lib/validations.ts.  A form value is a record of the submitted fields;  *)
(* the category key may be absent.  The price field holds what was typed:  *)
(* a sign and the decimal literal n / 10^k, or text that is no number.  A  *)
(* nextPayment string of the shape YYYY-MM-DD is the record of its three   *)
(* numbers, any other string a record of its text.                         *)
(***************************************************************************)
Price(sign, n, k) == [sign |-> sign, n |-> n, k |-> k]

DateString(y, m, d) == [y |-> y, m |-> m, d |-> d]

\* x < y for numbers that are zero or positive
NumLess(x, y) ==
    /\ ~x.nan /\ ~y.nan
    /\ y.m # <<>>
    /\ \/ x.m = <<>>
       \/ x.e < y.e
       \/ (x.e = y.e /\ BCmp(x.m, y.m) < 0)

\* z.coerce.number(): Number(input), for an input that is a number
CoerceNumber(p) == NumberLiteral(p.n, p.k)

\* price: z.coerce.number().min(0.01).nonnegative(); NaN is no number
PriceIsValid(p) ==
    /\ p.sign = "+"
    /\ ~NumLess(CoerceNumber(p), NumberLiteral(1, 2))

IsLeapYear(y) == (y % 4 = 0 /\ y % 100 # 0) \/ y % 400 = 0

DaysInMonth(y, m) ==
    IF m = 2 THEN (IF IsLeapYear(y) THEN 29 ELSE 28)
    ELSE IF m \in {4, 6, 9, 11} THEN 30 ELSE 31

\* z.string().date(): the shape YYYY-MM-DD naming a day of the calendar
IsDateString(val) ==
    /\ "y" \in DOMAIN val
    /\ val.m \in 1..12
    /\ val.d \in 1..DaysInMonth(val.y, val.m)

\* new Date(val).getFullYear(): val is midnight UTC of that day, the year is
\* read in the server's local time, utcOffset hours from UTC
GetFullYear(val, utcOffset) ==
    IF utcOffset < 0 /\ val.m = 1 /\ val.d = 1 THEN val.y - 1 ELSE val.y

\* nextPayment: z.string().date().refine(val => !isNaN(date.getTime())
\*                                            && date.getFullYear() > 2000)
NextPaymentIsValid(val, utcOffset) ==
    /\ IsDateString(val)
    /\ GetFullYear(val, utcOffset) > 2000

\* a schema whose price only has to be non-negative
FieldErrorsWithoutMinimum(data, utcOffset) ==
    {f \in {"name", "price", "currency", "cycle", "nextPayment"} :
        \/ f = "name" /\ data.name = ""
        \/ f = "price" /\ data.price.sign # "+"
        \/ f = "currency" /\ data.currency \notin {"JPY", "USD", "EUR"}
        \/ f = "cycle" /\ data.cycle \notin {"monthly", "yearly"}
        \/ f = "nextPayment" /\ ~NextPaymentIsValid(data.nextPayment, utcOffset)}

\* a schema whose currency may be any string
FieldErrorsAnyCurrency(data, utcOffset) ==
    {f \in {"name", "price", "cycle", "nextPayment"} :
        \/ f = "name" /\ data.name = ""
        \/ f = "price" /\ ~PriceIsValid(data.price)
        \/ f = "cycle" /\ data.cycle \notin {"monthly", "yearly"}
        \/ f = "nextPayment" /\ ~NextPaymentIsValid(data.nextPayment, utcOffset)}

\* validated.error.flatten().fieldErrors: the fields with an issue
FieldErrors(data, utcOffset) ==
    {f \in {"name", "price", "currency", "cycle", "nextPayment"} :
        \/ f = "name" /\ data.name = ""
        \/ f = "price" /\ ~PriceIsValid(data.price)
        \/ f = "currency" /\
               data.currency \notin {CURRENCIES.JPY.code, CURRENCIES.USD.code,
                                     CURRENCIES.EUR.code}
        \/ f = "cycle" /\
               data.cycle \notin {SUBSCRIPTION_CYCLES.monthly,
                                  SUBSCRIPTION_CYCLES.yearly}
        \/ f = "nextPayment" /\ ~NextPaymentIsValid(data.nextPayment, utcOffset)}

\* the result of safeParse for the issues found: on success the data with
\* the price coerced
ParseResult(data, fieldErrors) ==
    IF fieldErrors # {}
    THEN [success |-> FALSE, fieldErrors |-> fieldErrors]
    ELSE [success |-> TRUE,
          data    |-> [data EXCEPT !.price = CoerceNumber(data.price)]]

\* formSchema.safeParse(data)
safeParse(data, utcOffset) == ParseResult(data, FieldErrors(data, utcOffset))

(***************************************************************************)
(* db/index.ts.  process.env maps the names that are set to strings; the   *)
(* module body runs from top to bottom each time the module is evaluated   *)
(* (once in a production process, again after every hot reload in          *)
(* development), on the global object as the evaluations before it left    *)
(* it.  A client is the record of what postgres() was called with.         *)
(***************************************************************************)
\* process.env.NODE_ENV === 'production'
IsProduction(env) == "NODE_ENV" \in DOMAIN env /\ env.NODE_ENV = "production"

\* process.env.DB_MAX_CONNECTIONS ? parseInt(...) : (production ? 10 : 1)
MAX_CONNECTIONS(env) ==
    IF "DB_MAX_CONNECTIONS" \in DOMAIN env /\ env.DB_MAX_CONNECTIONS # <<>>
    THEN ParseInt(env.DB_MAX_CONNECTIONS)
    ELSE IF IsProduction(env) THEN NumFromInt(10) ELSE NumFromInt(1)

\* postgres(connectionString, {max}): a new client, the serial-th the
\* process constructs
postgres(connectionString, max, serial) ==
    [serial |-> serial, connectionString |-> connectionString, max |-> max]

\* a module that constructs its client without looking at DATABASE_URL
EvaluateWithoutEnvCheck(env, conn, constructed) ==
    LET fresh  == postgres(IF "DATABASE_URL" \in DOMAIN env
                           THEN env.DATABASE_URL ELSE "",
                           MAX_CONNECTIONS(env), Len(constructed) + 1)
        client == NullishCoalesce(conn, fresh)
    IN  [threw       |-> FALSE,
         conn        |-> IF ~IsProduction(env) THEN client ELSE conn,
         constructed |-> IF conn = Undefined THEN Append(constructed, fresh)
                         ELSE constructed,
         db          |-> [client |-> client]]

\* a module that constructs a client of its own at every evaluation
EvaluateWithoutCache(env, conn, constructed) ==
    IF ~("DATABASE_URL" \in DOMAIN env /\ env.DATABASE_URL # "")
    THEN [threw |-> TRUE, conn |-> conn, constructed |-> constructed]
    ELSE LET client == postgres(env.DATABASE_URL, MAX_CONNECTIONS(env),
                                Len(constructed) + 1)
         IN  [threw       |-> FALSE,
              conn        |-> IF ~IsProduction(env) THEN client ELSE conn,
              constructed |-> Append(constructed, client),
              db          |-> [client |-> client]]

\* one evaluation of the module: whether it threw, globalThis.conn and the
\* clients constructed so far as it leaves them, and the db it exports
EvaluateDbModule(env, conn, constructed) ==
    IF ~("DATABASE_URL" \in DOMAIN env /\ env.DATABASE_URL # "")
    THEN [threw |-> TRUE, conn |-> conn, constructed |-> constructed]
    ELSE LET fresh  == postgres(env.DATABASE_URL, MAX_CONNECTIONS(env),
                                Len(constructed) + 1)
             client == NullishCoalesce(conn, fresh)
         IN  [threw       |-> FALSE,
              conn        |-> IF ~IsProduction(env) THEN client ELSE conn,
              constructed |-> IF conn = Undefined
                              THEN Append(constructed, fresh)
                              ELSE constructed,
              db          |-> [client |-> client]]

(***************************************************************************)
(* app/actions.ts on the subscriptions table of db/schema.ts.  The store   *)
(* is the set of its rows.  A statement sent to the store either runs or   *)
(* throws (connection lost, value out of the column's range); the action's *)
(* catch block turns that into a failure response.  Error messages are     *)
(* named by short tokens.                                                  *)
(***************************************************************************)
getCurrentUser == [id |-> "user_demo_123"]

PublicColumns ==
    {"id", "name", "price", "currency", "cycle", "nextPayment", "category",
     "isActive"}

\* price: integer('price') holds a 32-bit signed integer
FitsIntegerColumn(x) ==
    /\ NumIsInteger(x)
    /\ BCmp(NumToBig(x), BFromInt(2147483647)) <= 0

\* the row db.insert(subscriptions).values(values) creates: the columns
\* missing from values take their defaults (id random and new, category
\* 'general', isActive true, createdAt now)
InsertedRow(values, newId, now) ==
    [id          |-> newId,
     userId      |-> values.userId,
     name        |-> values.name,
     price       |-> NumToInt(values.price),
     currency    |-> values.currency,
     cycle       |-> values.cycle,
     nextPayment |-> values.nextPayment,
     category    |-> IF "category" \in DOMAIN values THEN values.category
                     ELSE "general",
     isActive    |-> TRUE,
     createdAt   |-> now,
     updatedAt   |-> values.updatedAt]

\* the values with the price left as the form had it
SpreadKeepingPrice(data, priceInMinorUnits, userId, updatedAt) ==
    [k \in DOMAIN data \cup {"userId", "updatedAt"} |->
        CASE k = "userId"    -> userId
          [] k = "updatedAt" -> updatedAt
          [] OTHER           -> data[k]]

\* { ...validated.data, price: priceInMinorUnits, userId, updatedAt }
Spread(data, priceInMinorUnits, userId, updatedAt) ==
    [k \in DOMAIN data \cup {"price", "userId", "updatedAt"} |->
        CASE k = "price"     -> priceInMinorUnits
          [] k = "userId"    -> userId
          [] k = "updatedAt" -> updatedAt
          [] OTHER           -> data[k]]

\* what a server action leaves behind: the store, the response, the paths
\* it revalidated, the arguments it called convertAmountToMinorUnits with,
\* and whether its statement was never sent to the store ("untouched"), ran
\* or threw
Outcome(store, response, revalidated, converted, statement) ==
    [rows |-> store, response |-> response, revalidated |-> revalidated,
     converted |-> converted, statement |-> statement]

\* the insert statement and what follows it: the store throws for a reason
\* of its own or because the price does not fit the column, and the catch
\* block answers; otherwise the row is there, "/" is revalidated
InsertAndRevalidate(data, priceInMinorUnits, user, store, now, storeThrows) ==
    IF storeThrows \/ ~FitsIntegerColumn(priceInMinorUnits)
    THEN Outcome(store, [success |-> FALSE, error |-> "save-failed"], <<>>,
                 << [amount |-> data.price, currency |-> data.currency] >>,
                 "threw")
    ELSE Outcome(store \cup {InsertedRow(Spread(data, priceInMinorUnits,
                                                user.id, now), now, now)},
                 [success |-> TRUE], <<"/">>,
                 << [amount |-> data.price, currency |-> data.currency] >>,
                 "ran")

\* addSubscription after safeParse: the early return on a validation
\* failure, else the try block
AfterParse(validated, store, now, storeThrows) ==
    IF ~validated.success
    THEN Outcome(store,
                 [success |-> FALSE, error |-> "check-input",
                  fieldErrors |-> validated.fieldErrors],
                 <<>>, <<>>, "untouched")
    ELSE InsertAndRevalidate(
             validated.data,
             convertAmountToMinorUnits(validated.data.price,
                                       validated.data.currency),
             getCurrentUser, store, now, storeThrows)

\* addSubscription(data) on the store at time now; storeThrows says whether
\* the insert statement throws for a reason of the store's own
addSubscription(data, store, now, utcOffset, storeThrows) ==
    AfterParse(safeParse(data, utcOffset), store, now, storeThrows)

\* a delete that matches on the id alone
deleteSubscriptionAnyOwner(id, store, storeThrows) ==
    LET result == {r \in store : r.id = id}
    IN  IF storeThrows
        THEN Outcome(store, [success |-> FALSE, error |-> "delete-error"],
                     <<>>, <<>>, "threw")
        ELSE IF result = {}
        THEN Outcome(store, [success |-> FALSE, error |-> "not-found"],
                     <<>>, <<>>, "ran")
        ELSE Outcome(store \ result, [success |-> TRUE], <<"/">>, <<>>, "ran")

\* a delete that revalidates before it looks at the result
deleteSubscriptionRevalidatingFirst(id, store, storeThrows) ==
    LET result == {r \in store : r.id = id /\ r.userId = getCurrentUser.id}
    IN  IF storeThrows
        THEN Outcome(store, [success |-> FALSE, error |-> "delete-error"],
                     <<>>, <<>>, "threw")
        ELSE IF result = {}
        THEN Outcome(store, [success |-> FALSE, error |-> "not-found"],
                     <<"/">>, <<>>, "ran")
        ELSE Outcome(store \ result, [success |-> TRUE], <<"/">>, <<>>, "ran")

\* a delete that answers success whatever the statement returned
deleteSubscriptionIgnoringResult(id, store, storeThrows) ==
    LET result == {r \in store : r.id = id /\ r.userId = getCurrentUser.id}
    IN  IF storeThrows
        THEN Outcome(store, [success |-> FALSE, error |-> "delete-error"],
                     <<>>, <<>>, "threw")
        ELSE Outcome(store \ result, [success |-> TRUE], <<"/">>, <<>>, "ran")

\* deleteSubscription(id): result is what .returning() yields, the rows the
\* statement deleted
deleteSubscription(id, store, storeThrows) ==
    LET user   == getCurrentUser
        result == {r \in store : r.id = id /\ r.userId = user.id}
    IN  IF storeThrows
        THEN Outcome(store, [success |-> FALSE, error |-> "delete-error"],
                     <<>>, <<>>, "threw")
        ELSE IF result = {}
        THEN Outcome(store, [success |-> FALSE, error |-> "not-found"],
                     <<>>, <<>>, "ran")
        ELSE Outcome(store \ result, [success |-> TRUE], <<"/">>, <<>>, "ran")

\* a date column orders by year, month, day
DateKey(val) == val.y * 10000 + val.m * 100 + val.d

\* columns: {...}: the row restricted to the selected columns
SelectColumns(r) == [c \in PublicColumns |-> r[c]]

\* a query without the where clause
findManyAnyOwner(store, userId) == {SelectColumns(r) : r \in store}

\* findMany({where: eq(subscriptions.userId, user.id), columns}) before
\* ordering
findMany(store, userId) ==
    {SelectColumns(r) : r \in {q \in store : q.userId = userId}}

\* orderBy: [desc(subscriptions.nextPayment)]: every listing of the rows in
\* which no row comes before one of a later date; rows of the same date
\* come in any order
RECURSIVE OrderByDesc(_)
OrderByDesc(found) ==
    IF found = {} THEN {<<>>}
    ELSE UNION {
            {<<r>> \o rest : rest \in OrderByDesc(found \ {r})} :
            r \in {q \in found :
                      \A o \in found :
                          DateKey(o.nextPayment) <= DateKey(q.nextPayment)}}

\* a fetch whose failure response carries no data
getSubscriptionsWithoutData(store, storeThrows) ==
    IF storeThrows
    THEN {[success |-> FALSE, error |-> "fetch-failed"]}
    ELSE {[success |-> TRUE, data |-> data] :
             data \in OrderByDesc(findMany(store, getCurrentUser.id))}

\* getSubscriptions(): the responses it can give on this store
getSubscriptions(store, storeThrows) ==
    LET user == getCurrentUser
    IN  IF storeThrows
        THEN {[success |-> FALSE, error |-> "fetch-failed", data |-> <<>>]}
        ELSE {[success |-> TRUE, data |-> data] :
                 data \in OrderByDesc(findMany(store, user.id))}

(***************************************************************************)
(* SubscriptionList.  useOptimistic(initialData, reducer) shows initialData *)
(* with the reducer applied for every update dispatched in a transition    *)
(* that has not finished; when the transition finishes the updates are     *)
(* dropped and initialData shows as it then is.  The server action called  *)
(* in the same event is part of that transition (the framework dispatches  *)
(* it inside startTransition), so the transition finishes when the         *)
(* action's response, with the revalidated page, has arrived.              *)
(***************************************************************************)
\* a reducer that leaves the list as it is
KeepAll(state, idToDelete) == state

\* (state, idToDelete) => state.filter((sub) => sub.id !== idToDelete)
FilterOut(state, idToDelete) ==
    SelectSeq(state, LAMBDA sub : sub.id # idToDelete)

\* optimisticSubscriptions: the reducer applied to initialData for each
\* pending update in turn
RECURSIVE useOptimistic(_, _)
useOptimistic(state, updates) ==
    IF updates = <<>> THEN state
    ELSE useOptimistic(FilterOut(state, Head(updates)), Tail(updates))

(***************************************************************************)
(* AddSubscriptionButton.  The form is react-hook-form's: its values, the  *)
(* values reset() goes back to, the fields with an error, and the submit   *)
(* flags.  handleSubmit runs the resolver (the same formSchema, in the     *)
(* browser's time zone) and calls onSubmit only when it finds no issue.    *)
(***************************************************************************)
\* defaultValues / the argument of form.reset: today is
\* getLocalTodayString() at the time of the call
DefaultValues(today) ==
    [name        |-> "",
     price       |-> Price("+", 0, 0),
     currency    |-> CURRENCIES.JPY.code,
     cycle       |-> SUBSCRIPTION_CYCLES.monthly,
     nextPayment |-> today,
     category    |-> "general"]

\* the browser's own validation of the inputs on submit: step="0.01" on
\* the price, min={today} on the date
CheckValidity(values, today) ==
    /\ values.price.k <= 2
    /\ DateKey(values.nextPayment) >= DateKey(today)

\* a change of the inputs to the values v: once the form has been
\* submitted the resolver runs again and the errors of the changed fields
\* are replaced by what it finds
OnChange(form, v, zone) ==
    LET changed == {f \in DOMAIN v : v[f] # form.values[f]}
    IN  [form EXCEPT
            !.values = v,
            !.errors = IF form.isSubmitted
                       THEN (@ \ changed) \cup (FieldErrors(v, zone) \cap changed)
                       ELSE @]

\* an onSubmit that resets with form.reset(), back to the values of mount
onSubmitResettingToMount(res, open, form, toasts, today) ==
    IF res.success
    THEN [toasts |-> Append(toasts, "added"),
          open   |-> FALSE,
          form   |-> [form EXCEPT !.values = form.defaultValues,
                                  !.errors = {},
                                  !.isSubmitting = FALSE,
                                  !.isSubmitted = TRUE]]
    ELSE [toasts |-> IF "error" \in DOMAIN res THEN Append(toasts, res.error)
                     ELSE toasts,
          open   |-> open,
          form   |-> [form EXCEPT
                         !.errors = IF "fieldErrors" \in DOMAIN res
                                    THEN @ \cup res.fieldErrors ELSE @,
                         !.isSubmitting = FALSE,
                         !.isSubmitted = TRUE]]

\* onSubmit from the line after its await to its end, and handleSubmit's
\* own end (isSubmitting false, isSubmitted true): the toasts, the open
\* flag and the form they leave
onSubmit(res, open, form, toasts, today) ==
    IF res.success
    THEN [toasts |-> Append(toasts, "added"),
          open   |-> FALSE,
          form   |-> [values        |-> DefaultValues(today),
                      defaultValues |-> DefaultValues(today),
                      errors        |-> {},
                      isSubmitting  |-> FALSE,
                      isSubmitted   |-> TRUE]]
    ELSE [toasts |-> IF "error" \in DOMAIN res THEN Append(toasts, res.error)
                     ELSE toasts,
          open   |-> open,
          form   |-> [form EXCEPT
                         !.errors = IF "fieldErrors" \in DOMAIN res
                                    THEN @ \cup res.fieldErrors ELSE @,
                         !.isSubmitting = FALSE,
                         !.isSubmitted = TRUE]]

(***************************************************************************)
(* State.  The money functions are pure; the state is that of a caller:    *)
(* the amount it typed and the number it holds after each conversion, and  *)
(* the records it fetched and the totals it got back for them.             *)
(***************************************************************************)
VARIABLES
    input,          \* the amount as typed: the decimal literal n / 10^k
    currency,       \* the currency code passed to the converters
    amount,         \* the number the caller holds now
    calls,          \* the converters applied to it so far, in order
    subscriptions,  \* the records handed to calculateMonthlyAggregations
    totals,         \* its result, NoTotals before the call
    formatted,      \* the formatter called and the string it returned
    rows,           \* the subscriptions table
    now,            \* the store's clock, counted in rows created
    lastCall,       \* the last server action: its argument, the store it
                    \* found, its response and what it called on the way
    utcOffset,      \* the server's time zone, in hours from UTC
    initialData,    \* SubscriptionList's prop: the rows the page fetched
    optimistic,     \* ids dispatched to useOptimistic, transition pending
    deleteTarget,   \* the row named in the confirmation dialog, or Null
    isDeleting,     \* the flag that disables the dialog's buttons
    request,        \* the deleteSubscription call of executeDelete
    toasts,         \* the toasts raised so far
    pageError,      \* the page rendered its error alert instead of the list
    outstanding,    \* deleteSubscription calls awaited by executeDelete
    deleted,        \* ids for which deleteSubscription answered success,
                    \* and whether it did so twice for one of them
    env,            \* process.env of the server process
    conn,           \* globalThis.conn
    constructed,    \* the clients postgres() has constructed, in order
    evaluations,    \* what each evaluation of db/index.ts ended with
    open,           \* AddSubscriptionButton: the dialog is open
    form,           \* its form: values, field errors, submit flags
    submission,     \* the addSubscription call of onSubmit
    browser         \* the browser's date and time zone

moneyVars == <<input, currency, amount, calls>>

aggVars == <<subscriptions, totals>>

formatVars == <<formatted>>

actionVars == <<rows, now, lastCall, utcOffset, deleted>>

listVars ==
    <<initialData, optimistic, deleteTarget, isDeleting, request, toasts,
      pageError, outstanding>>

dbVars == <<env, conn, constructed, evaluations>>

dialogVars == <<open, form, submission, browser>>

vars ==
    <<moneyVars, aggVars, formatVars, actionVars, listVars, dbVars, dialogVars>>

NoTotals == [none |-> TRUE]

NoOutput == [none |-> TRUE]

\* the parts of the state a run that never touches them leaves at rest
IdleMoney ==
    /\ input = [n |-> 0, k |-> 0]
    /\ currency = "JPY"
    /\ amount = NumZero
    /\ calls = <<>>

IdleAgg == subscriptions = <<>> /\ totals = NoTotals

IdleFormat == formatted = NoOutput

NoCall == [op |-> "none"]

IdleActions ==
    /\ rows = {}
    /\ now = 0
    /\ lastCall = NoCall
    /\ utcOffset = 0
    /\ deleted = [ids |-> {}, twice |-> FALSE]

Null == [null |-> TRUE]

NoRequest == [status |-> "none"]

IdleList ==
    /\ initialData = <<>>
    /\ optimistic = <<>>
    /\ deleteTarget = Null
    /\ isDeleting = FALSE
    /\ request = NoRequest
    /\ toasts = <<>>
    /\ pageError = FALSE
    /\ outstanding = 0

\* a process whose db module was never evaluated
IdleDb ==
    /\ env = <<>>
    /\ conn = Undefined
    /\ constructed = <<>>
    /\ evaluations = <<>>

IdleDialog ==
    /\ open = FALSE
    /\ form = [none |-> TRUE]
    /\ submission = NoRequest
    /\ browser = [none |-> TRUE]

\* ---- bounds of the model ----
MaxUnits == 45            \* typed amounts have digit strings 0..MaxUnits

MaxFractionDigits == 3    \* and up to this many digits after the point

MaxCalls == 2             \* conversions applied in a row

MaxSubs == 3              \* records in one aggregation

MaxFlagged == 2           \* records in one aggregation of flagged records

MaxInserts == 2           \* rows created in one run of the server actions

MaxDeletes == 2           \* deletions confirmed in one run of the list

MaxLoads == 3             \* evaluations of db/index.ts in one process

MaxSubmits == 2           \* addSubscription calls answered to one dialog

MaxDays == 1              \* midnights passing while the page is open

\* amounts of the documented examples and of the integer column's upper end
ExampleAmounts ==
    {[n |-> 9995, k |-> 3], [n |-> 9994, k |-> 3], [n |-> 15007, k |-> 1],
     [n |-> 1501, k |-> 0], [n |-> 1099, k |-> 2],
     [n |-> 2147483647, k |-> 0], [n |-> 2147483647, k |-> 2]}

Amounts ==
    [n : 0..MaxUnits, k : 0..MaxFractionDigits] \cup ExampleAmounts

\* the registered codes, an unregistered code, and a code that names a
\* member of Object.prototype
CurrencyInputs == CurrencyCode \cup {"GBP", "constructor"}

Sub(price, cur, cycle) ==
    [price |-> price, currency |-> cur, cycle |-> cycle, isActive |-> TRUE]

\* stored records: price is the integer column, in minor units
Catalog ==
    {Sub(1000, "JPY", "monthly"), Sub(120000, "JPY", "yearly"),
     Sub(999, "USD", "monthly"),  Sub(42, "USD", "yearly"),
     Sub(1999, "EUR", "yearly"),  Sub(500, "GBP", "monthly")}

SeqsUpTo(S, n) == UNION {[1..k -> S] : k \in 0..n}

\* ---- the Money Converter, driven by a caller ----
InitMoney ==
    /\ input \in Amounts
    /\ currency \in CurrencyInputs
    /\ amount = NumberLiteral(input.n, input.k)
    /\ calls = <<>>
    /\ IdleAgg
    /\ IdleFormat
    /\ IdleDb
    /\ IdleDialog
    /\ IdleActions
    /\ IdleList

ToMinorUnits ==
    /\ Len(calls) < MaxCalls
    /\ amount' = convertAmountToMinorUnits(amount, currency)
    /\ calls' = Append(calls, "toMinor")
    /\ UNCHANGED <<input, currency, aggVars, formatVars, dbVars, dialogVars, actionVars, listVars>>

FromMinorUnits ==
    /\ Len(calls) < MaxCalls
    /\ amount' = convertAmountFromMinorUnits(amount, currency)
    /\ calls' = Append(calls, "fromMinor")
    /\ UNCHANGED <<input, currency, aggVars, formatVars, dbVars, dialogVars, actionVars, listVars>>

NextMoney == ToMinorUnits \/ FromMinorUnits

SpecMoney == InitMoney /\ [][NextMoney]_vars

\* ---- the Aggregator, called once on the fetched records ----
InitAgg ==
    /\ subscriptions \in SeqsUpTo(Catalog, MaxSubs)
    /\ totals = NoTotals
    /\ IdleMoney
    /\ IdleFormat
    /\ IdleDb
    /\ IdleDialog
    /\ IdleActions
    /\ IdleList

Aggregate ==
    /\ totals = NoTotals
    /\ totals' = calculateMonthlyAggregations(subscriptions)
    /\ UNCHANGED <<moneyVars, subscriptions, formatVars, dbVars, dialogVars, actionVars, listVars>>

NextAgg == Aggregate

SpecAgg == InitAgg /\ [][NextAgg]_vars

\* ---- the Aggregator on records of either active flag ----
\* the stored records with the is_active column set either way
FlaggedCatalog == {[r EXCEPT !.isActive = a] : r \in Catalog, a \in BOOLEAN}

InitActive ==
    /\ subscriptions \in SeqsUpTo(FlaggedCatalog, MaxFlagged)
    /\ totals = NoTotals
    /\ IdleMoney
    /\ IdleFormat
    /\ IdleDb
    /\ IdleDialog
    /\ IdleActions
    /\ IdleList

SpecActive == InitActive /\ [][NextAgg]_vars

\* ---- the Display Formatter, called once on an amount ----
\* amounts of at most two fractional digits (what a stored integer or a sum
\* of stored prices converts to), and the documented examples
FormatAmounts ==
    {a \in Amounts : a.k <= 2}
        \cup {[n |-> 999, k |-> 0], [n |-> 1000, k |-> 0], [n |-> 1234567, k |-> 0]}

InitFormat ==
    /\ input \in FormatAmounts
    /\ currency \in CurrencyInputs
    /\ amount = NumberLiteral(input.n, input.k)
    /\ calls = <<>>
    /\ IdleAgg
    /\ IdleFormat
    /\ IdleDb
    /\ IdleDialog
    /\ IdleActions
    /\ IdleList

FormatCurrency ==
    /\ formatted = NoOutput
    /\ input.k = 0
    /\ formatted' = [fn |-> "formatCurrency", out |-> formatCurrency(amount, currency)]
    /\ UNCHANGED <<moneyVars, aggVars, dbVars, dialogVars, actionVars, listVars>>

FormatDisplayPrice ==
    /\ formatted = NoOutput
    /\ formatted' = [fn  |-> "formatDisplayPrice",
                     out |-> formatDisplayPrice(amount, currency)]
    /\ UNCHANGED <<moneyVars, aggVars, dbVars, dialogVars, actionVars, listVars>>

NextFormat == FormatCurrency \/ FormatDisplayPrice

SpecFormat == InitFormat /\ [][NextFormat]_vars

\* ---- the server actions on the store ----
\* rows the table may hold before the run: one of the demo user, inactive,
\* and one of another user
PreexistingRows ==
    {[id |-> 101, userId |-> "user_demo_123", name |-> "Hulu", price |-> 1026,
      currency |-> "JPY", cycle |-> "monthly",
      nextPayment |-> DateString(2024, 2, 29), category |-> "general",
      isActive |-> FALSE, createdAt |-> 0, updatedAt |-> 0],
     [id |-> 102, userId |-> "user_other", name |-> "Netflix", price |-> 1490,
      currency |-> "JPY", cycle |-> "monthly",
      nextPayment |-> DateString(2025, 12, 31), category |-> "video",
      isActive |-> TRUE, createdAt |-> 0, updatedAt |-> 0]}

BaseForm ==
    [name |-> "Netflix", price |-> Price("+", 999, 2), currency |-> "USD",
     cycle |-> "monthly", nextPayment |-> DateString(2024, 2, 29),
     category |-> "video"]

\* the form without its category key
WithoutCategory(data) == [k \in DOMAIN data \ {"category"} |-> data[k]]

\* the forms submitted: the base form, forms that differ from it in one
\* field (valid or not), and some that differ in two
AddInputs ==
    {BaseForm,
     [BaseForm EXCEPT !.currency = "JPY", !.cycle = "yearly",
                      !.price = Price("+", 4, 1)],
     [WithoutCategory(BaseForm) EXCEPT !.price = Price("+", 1, 2)],
     [BaseForm EXCEPT !.name = ""],
     [BaseForm EXCEPT !.name = "", !.price = Price("-", 1, 0)],
     [BaseForm EXCEPT !.currency = "GBP"],
     [BaseForm EXCEPT !.cycle = "weekly"]}
    \cup {[BaseForm EXCEPT !.price = p] :
              p \in {Price("+", 5, 3), Price("+", 0, 0), Price("-", 1, 0),
                     Price("NaN", 0, 0), Price("+", 2147483647, 0)}}
    \cup {[BaseForm EXCEPT !.nextPayment = d] :
              d \in {DateString(1999, 12, 31), DateString(2000, 6, 15),
                     DateString(2001, 1, 1), DateString(2023, 2, 29),
                     DateString(2024, 13, 1), [text |-> "tomorrow"]}}

\* ids passed to deleteSubscription: of rows that exist or may come to
\* exist, and one of no row
DeleteInputs == {r.id : r \in PreexistingRows} \cup (1..MaxInserts) \cup {999}

InitActions ==
    /\ rows \in SUBSET PreexistingRows
    /\ now = 0
    /\ lastCall = NoCall
    /\ utcOffset \in {-5, 0}
    /\ deleted = [ids |-> {}, twice |-> FALSE]
    /\ IdleMoney
    /\ IdleAgg
    /\ IdleFormat
    /\ IdleDb
    /\ IdleDialog
    /\ IdleList

Called(op, arg, before, outcome) ==
    [op |-> op, arg |-> arg, before |-> before, response |-> outcome.response,
     revalidated |-> outcome.revalidated, converted |-> outcome.converted,
     statement |-> outcome.statement]

AddSubscription ==
    /\ now < MaxInserts
    /\ \E data \in AddInputs, storeThrows \in BOOLEAN :
        \E outcome \in {addSubscription(data, rows, now + 1, utcOffset,
                                        storeThrows)} :
            /\ rows' = outcome.rows
            /\ now' = IF outcome.response.success THEN now + 1 ELSE now
            /\ lastCall' = Called("addSubscription", data, rows, outcome)
            /\ UNCHANGED <<utcOffset, deleted, moneyVars, aggVars, formatVars, dbVars, dialogVars, listVars>>

DeleteSubscription ==
    \E id \in DeleteInputs, storeThrows \in BOOLEAN :
        \E outcome \in {deleteSubscription(id, rows, storeThrows)} :
            /\ rows' = outcome.rows
            /\ lastCall' = Called("deleteSubscription", id, rows, outcome)
            /\ deleted' = IF outcome.response.success
                          THEN [ids   |-> deleted.ids \cup {id},
                                twice |-> deleted.twice \/ id \in deleted.ids]
                          ELSE deleted
            /\ UNCHANGED <<now, utcOffset, moneyVars, aggVars, formatVars, dbVars, dialogVars, listVars>>

GetSubscriptions ==
    \E storeThrows \in BOOLEAN :
        \E response \in getSubscriptions(rows, storeThrows) :
            /\ lastCall' = Called("getSubscriptions", <<>>, rows,
                                  Outcome(rows, response, <<>>, <<>>,
                                          IF storeThrows THEN "threw" ELSE "ran"))
            /\ UNCHANGED <<rows, now, utcOffset, deleted, moneyVars, aggVars, formatVars, dbVars, dialogVars, listVars>>

NextActions == AddSubscription \/ DeleteSubscription \/ GetSubscriptions

SpecActions == InitActions /\ [][NextActions]_vars

\* ---- SubscriptionList on the page, with the store behind it ----
\* rows the page may have fetched
ListedRows ==
    PreexistingRows \cup
    {[id |-> 103, userId |-> "user_demo_123", name |-> "Spotify", price |-> 999,
      currency |-> "USD", cycle |-> "monthly",
      nextPayment |-> DateString(2026, 1, 15), category |-> "music",
      isActive |-> TRUE, createdAt |-> 0, updatedAt |-> 0]}

\* the page was rendered from a successful getSubscriptions(); since then
\* rows may have been deleted from the store by other sessions
InitList ==
    /\ \E fetched \in SUBSET ListedRows :
          /\ rows \in SUBSET fetched
          /\ initialData \in OrderByDesc(findMany(fetched, getCurrentUser.id))
    /\ now = 0
    /\ lastCall = NoCall
    /\ utcOffset = 0
    /\ optimistic = <<>>
    /\ deleteTarget = Null
    /\ isDeleting = FALSE
    /\ request = NoRequest
    /\ toasts = <<>>
    /\ pageError = FALSE
    /\ outstanding = 0
    /\ deleted = [ids |-> {}, twice |-> FALSE]
    /\ IdleMoney
    /\ IdleAgg
    /\ IdleFormat
    /\ IdleDb
    /\ IdleDialog

optimisticSubscriptions ==
    IF pageError THEN <<>> ELSE useOptimistic(initialData, optimistic)

\* the confirmation dialog is on screen: the list is mounted, not empty,
\* and a target is set
DialogOpen ==
    /\ ~pageError
    /\ optimisticSubscriptions # <<>>
    /\ deleteTarget # Null

\* buttons that are never disabled
NeverDisabled == FALSE

\* disabled={isDeleting} on the dialog's two buttons
Disabled == isDeleting

\* the delete button of a displayed row: onDeleteClick(id, name).  The
\* dialog is modal, so no row can be clicked while it is open
ClickDelete ==
    /\ ~DialogOpen
    /\ \E i \in DOMAIN optimisticSubscriptions :
          deleteTarget' = [id   |-> optimisticSubscriptions[i].id,
                           name |-> optimisticSubscriptions[i].name]
    /\ UNCHANGED <<initialData, optimistic, isDeleting, request, toasts,
                   pageError, outstanding, moneyVars, aggVars, formatVars, dbVars, dialogVars, actionVars>>

\* the Escape key: onOpenChange(false)
DismissDialog ==
    /\ DialogOpen
    /\ deleteTarget' = Null
    /\ UNCHANGED <<initialData, optimistic, isDeleting, request, toasts,
                   pageError, outstanding, moneyVars, aggVars, formatVars, dbVars, dialogVars, actionVars>>

\* the Cancel button, disabled while isDeleting
CancelDelete ==
    /\ DialogOpen
    /\ ~Disabled
    /\ deleteTarget' = Null
    /\ UNCHANGED <<initialData, optimistic, isDeleting, request, toasts,
                   pageError, outstanding, moneyVars, aggVars, formatVars, dbVars, dialogVars, actionVars>>

\* the Delete button, disabled while isDeleting: executeDelete up to its
\* await
ConfirmDelete ==
    /\ DialogOpen
    /\ ~Disabled
    /\ Len(toasts) < MaxDeletes
    /\ isDeleting' = TRUE
    /\ optimistic' = Append(optimistic, deleteTarget.id)
    /\ request' = [status |-> "sent", id |-> deleteTarget.id]
    /\ outstanding' = outstanding + 1
    /\ UNCHANGED <<initialData, deleteTarget, toasts, pageError,
                   moneyVars, aggVars, formatVars, dbVars, dialogVars, actionVars>>

\* the server runs deleteSubscription(id)
ServeDelete ==
    /\ request.status = "sent"
    /\ \E storeThrows \in BOOLEAN :
          \E outcome \in {deleteSubscription(request.id, rows, storeThrows)} :
              /\ rows' = outcome.rows
              /\ lastCall' = Called("deleteSubscription", request.id, rows, outcome)
              /\ request' = [status |-> "answered", id |-> request.id,
                             result |-> outcome.response,
                             revalidated |-> outcome.revalidated]
              /\ deleted' = IF outcome.response.success
                            THEN [ids   |-> deleted.ids \cup {request.id},
                                  twice |-> deleted.twice
                                               \/ request.id \in deleted.ids]
                            ELSE deleted
    /\ UNCHANGED <<now, utcOffset, initialData, optimistic, deleteTarget,
                   isDeleting, toasts, pageError, outstanding, moneyVars, aggVars, formatVars, dbVars, dialogVars>>

\* the response arrives: a revalidated page is rendered again from
\* getSubscriptions(), the transition finishes, executeDelete goes on after
\* its await
ReceiveResult ==
    /\ request.status = "answered"
    /\ IF request.revalidated = <<>>
       THEN UNCHANGED <<initialData, pageError>>
       ELSE \E storeThrows \in BOOLEAN :
              \E page \in getSubscriptions(rows, storeThrows) :
                  /\ initialData' = page.data
                  /\ pageError' = ~page.success
    /\ optimistic' = <<>>
    /\ isDeleting' = FALSE
    /\ deleteTarget' = Null
    /\ toasts' = Append(toasts, IF request.result.success THEN "success"
                                ELSE "error")
    /\ request' = [request EXCEPT !.status = "done"]
    /\ outstanding' = outstanding - 1
    /\ UNCHANGED <<moneyVars, aggVars, formatVars, dbVars, dialogVars, actionVars>>

NextList ==
    \/ ClickDelete
    \/ DismissDialog
    \/ CancelDelete
    \/ ConfirmDelete
    \/ ServeDelete
    \/ ReceiveResult

SpecList == InitList /\ [][NextList]_vars

\* ---- the server process loading db/index.ts ----
\* the environments a process is started in: each name unset, empty or set
Environments ==
    {[k \in names |->
         CASE k = "DATABASE_URL"       -> url
           [] k = "NODE_ENV"           -> mode
           [] k = "DB_MAX_CONNECTIONS" -> max] :
        names \in SUBSET {"DATABASE_URL", "NODE_ENV", "DB_MAX_CONNECTIONS"},
        url \in {"", "postgres://localhost:5432/subs"},
        mode \in {"development", "production", "test"},
        max \in {<<>>, <<"5">>, <<"m", "a", "x">>}}

InitDb ==
    /\ env \in Environments
    /\ conn = Undefined
    /\ constructed = <<>>
    /\ evaluations = <<>>
    /\ IdleMoney
    /\ IdleAgg
    /\ IdleFormat
    /\ IdleActions
    /\ IdleList
    /\ IdleDialog

\* the module is evaluated: at the first import, and again after a reload
LoadDbModule ==
    /\ Len(evaluations) < MaxLoads
    /\ \E result \in {EvaluateDbModule(env, conn, constructed)} :
          /\ conn' = result.conn
          /\ constructed' = result.constructed
          /\ evaluations' =
                 Append(evaluations,
                        IF result.threw THEN [threw |-> TRUE]
                        ELSE [threw |-> FALSE, db |-> result.db])
    /\ UNCHANGED <<env, moneyVars, aggVars, formatVars, actionVars, listVars,
                   dialogVars>>

SpecDb == InitDb /\ [][LoadDbModule]_vars

\* ---- AddSubscriptionButton on the page, with the store behind it ----
\* the forms the user fills in: a valid one, one the resolver rejects for
\* its name, one whose price the store rejects, and one whose date is
\* 1 January 2001
TypedForms(today) ==
    {[DefaultValues(today) EXCEPT !.name = "Netflix",
                                  !.price = Price("+", 999, 2),
                                  !.currency = "USD"],
     [DefaultValues(today) EXCEPT !.price = Price("+", 999, 2)],
     [DefaultValues(today) EXCEPT !.name = "Netflix",
                                  !.price = Price("+", 2147483647, 0),
                                  !.currency = "USD"],
     [DefaultValues(today) EXCEPT !.name = "Netflix",
                                  !.price = Price("+", 999, 2),
                                  !.nextPayment = DateString(2001, 1, 1)]}

\* the page is shown in a browser whose clock is right, or was never set,
\* and useForm has set the form up; the server's zone is UTC or west of it
InitDialog ==
    /\ \E today \in {DateString(2001, 1, 1), DateString(2026, 11, 4)} :
          /\ browser = [today |-> today, utcOffset |-> 0, midnights |-> 0]
          /\ form = [values        |-> DefaultValues(today),
                      defaultValues |-> DefaultValues(today),
                      errors        |-> {},
                      isSubmitting  |-> FALSE,
                      isSubmitted   |-> FALSE]
    /\ open = FALSE
    /\ submission = NoRequest
    /\ rows = {}
    /\ now = 0
    /\ lastCall = NoCall
    /\ utcOffset \in {-5, 0}
    /\ deleted = [ids |-> {}, twice |-> FALSE]
    /\ IdleMoney
    /\ IdleAgg
    /\ IdleFormat
    /\ IdleList
    /\ IdleDb

\* DialogTrigger
OpenDialog ==
    /\ ~open
    /\ open' = TRUE
    /\ UNCHANGED <<form, submission, browser, moneyVars, aggVars, formatVars,
                   actionVars, listVars, dbVars>>

\* onOpenChange(false): Escape, the close button, a click outside
CloseDialog ==
    /\ open
    /\ open' = FALSE
    /\ UNCHANGED <<form, submission, browser, moneyVars, aggVars, formatVars,
                   actionVars, listVars, dbVars>>

\* the user fills in the inputs
ChangeInputs ==
    /\ open
    /\ \E v \in TypedForms(browser.today) :
          form' = OnChange(form, v, browser.utcOffset)
    /\ UNCHANGED <<open, submission, browser, moneyVars, aggVars, formatVars,
                   actionVars, listVars, dbVars>>

\* midnight passes in the browser
Midnight ==
    /\ browser.midnights < MaxDays
    /\ browser' = [browser EXCEPT !.today.d = @ + 1, !.midnights = @ + 1]
    /\ UNCHANGED <<open, form, submission, moneyVars, aggVars, formatVars,
                   actionVars, listVars, dbVars>>

\* the submit button, disabled while isSubmitting: the browser checks the
\* inputs, handleSubmit runs the resolver and, without issues, onSubmit up
\* to its await
Submit ==
    /\ open
    /\ ~form.isSubmitting
    /\ Len(toasts) < MaxSubmits
    /\ CheckValidity(form.values, browser.today)
    /\ \E issues \in {FieldErrors(form.values, browser.utcOffset)} :
          IF issues # {}
          THEN /\ form' = [form EXCEPT !.errors = issues, !.isSubmitted = TRUE]
               /\ UNCHANGED submission
          ELSE /\ form' = [form EXCEPT !.errors = {}, !.isSubmitting = TRUE]
               /\ submission' = [status |-> "sent", values |-> form.values]
    /\ UNCHANGED <<open, browser, moneyVars, aggVars, formatVars, actionVars,
                   listVars, dbVars>>

\* the server runs addSubscription(values)
ServeAdd ==
    /\ submission.status = "sent"
    /\ \E storeThrows \in BOOLEAN :
          \E outcome \in {addSubscription(submission.values, rows, now + 1,
                                          utcOffset, storeThrows)} :
              /\ rows' = outcome.rows
              /\ now' = IF outcome.response.success THEN now + 1 ELSE now
              /\ lastCall' = Called("addSubscription", submission.values, rows,
                                    outcome)
              /\ submission' = [status |-> "answered",
                                values |-> submission.values,
                                res    |-> outcome.response]
    /\ UNCHANGED <<utcOffset, deleted, open, form, browser, moneyVars, aggVars,
                   formatVars, listVars, dbVars>>

\* the response arrives: onSubmit goes on after its await
ReceiveAdd ==
    /\ submission.status = "answered"
    /\ \E after \in {onSubmit(submission.res, open, form, toasts,
                               browser.today)} :
          /\ toasts' = after.toasts
          /\ open' = after.open
          /\ form' = after.form
    /\ submission' = [submission EXCEPT !.status = "done"]
    /\ UNCHANGED <<initialData, optimistic, deleteTarget, isDeleting, request,
                   pageError, outstanding, browser, moneyVars, aggVars,
                   formatVars, actionVars, dbVars>>

NextDialog ==
    \/ OpenDialog
    \/ CloseDialog
    \/ ChangeInputs
    \/ Midnight
    \/ Submit
    \/ ServeAdd
    \/ ReceiveAdd

SpecDialog == InitDialog /\ [][NextDialog]_vars

Init ==
    \/ InitMoney
    \/ InitAgg
    \/ InitActive
    \/ InitFormat
    \/ InitActions
    \/ InitList
    \/ InitDb
    \/ InitDialog

Next ==
    \/ NextMoney
    \/ NextAgg
    \/ NextFormat
    \/ NextActions
    \/ NextList
    \/ LoadDbModule
    \/ NextDialog

Spec == Init /\ [][Next]_vars

(***************************************************************************)
(* Decimal arithmetic of the documentation, independent of binary64:       *)
(* what a reader of the decimal digits expects.                            *)
(***************************************************************************)
\* minor-unit digits of a registered currency
Digits(c) == NumToInt(CURRENCIES[c].decimals)

\* n / 10^k rounded to d fractional digits, exact half up, as an integer
\* count of 10^-d units
DecimalHalfUp(n, k, d) ==
    IF k <= d THEN BMulSmall(BFromInt(n), Pow10(d - k))
    ELSE BDivSmall(BAdd(BFromInt(n), BFromInt(5 * Pow10(k - d - 1))),
                   Pow10(k - d)).q

\* the typed amount has at most d digits after the point
FitsDigits(lit, d) == lit.k <= d \/ lit.n % Pow10(lit.k - d) = 0

\* monthly-equivalent of a stored record as documented: the decimal amount
\* for a monthly record, amount / 12 rounded half up to 2 digits for a
\* yearly one
DocumentedMonthlyEquivalent(sub) ==
    LET d == Digits(sub.currency)
    IN  IF sub.cycle = "yearly"
        THEN NumberLiteral((200 * sub.price + 12 * Pow10(d))
                               \div (24 * Pow10(d)), 2)
        ELSE NumberLiteral(sub.price, d)

Done == totals # NoTotals

\* C1: for a registered currency and an integer m >= 0, converting m from
\* minor units to the decimal amount and back to minor units gives m again.
C1_RoundTripMinor ==
    (/\ calls = <<"fromMinor", "toMinor">>
     /\ currency \in CurrencyCode
     /\ input.k = 0)
        => amount = NumFromInt(input.n)

C1_Witness ==
    /\ calls = <<"fromMinor", "toMinor">>
    /\ currency = "USD"
    /\ input = [n |-> 29, k |-> 0]
    /\ amount = NumFromInt(29)

\* C2: convertAmountToMinorUnits gives amount x 10^d rounded to the nearest
\* integer as the decimal digits read, an exact half rounded up:
\* 9.995 USD -> 1000 and 9.994 USD -> 999.
C2_DecimalRounding ==
    (/\ calls = <<"toMinor">>
     /\ currency \in CurrencyCode)
        => amount = RoundToNumber(
                        DecimalHalfUp(input.n, input.k, Digits(currency)), 1, 0)

\* C3: for a registered currency with d minor-unit digits and a typed amount
\* with at most d fractional digits, converting to minor units and back
\* gives the typed amount again.
C3_RoundTripDecimal ==
    (/\ calls = <<"toMinor", "fromMinor">>
     /\ currency \in CurrencyCode
     /\ FitsDigits(input, Digits(currency)))
        => amount = NumberLiteral(input.n, input.k)

C3_Witness ==
    /\ calls = <<"toMinor", "fromMinor">>
    /\ currency = "USD"
    /\ input = [n |-> 1099, k |-> 2]
    /\ amount = NumberLiteral(1099, 2)

\* C4: for JPY (d = 0) convertAmountToMinorUnits rounds the amount to the
\* nearest whole unit (1500.7 -> 1501) and convertAmountFromMinorUnits
\* returns a stored integer unchanged (1501 -> 1501).
C4_ZeroDecimalCurrency ==
    currency = "JPY" =>
        /\ calls = <<"toMinor">>
              => amount = RoundToNumber(
                              DecimalHalfUp(input.n, input.k, 0), 1, 0)
        /\ (calls = <<"fromMinor">> /\ input.k = 0)
              => amount = NumFromInt(input.n)

C4_Witness ==
    /\ currency = "JPY"
    /\ calls = <<"toMinor">>
    /\ input = [n |-> 15007, k |-> 1]
    /\ amount = NumFromInt(1501)

\* C5: the monthly-equivalent of one record is the decimal amount for a
\* monthly record and amount / 12 rounded half up to exactly 2 fractional
\* digits for a yearly one, whatever the currency's own digits.
C5_MonthlyEquivalent ==
    (/\ Done
     /\ Len(subscriptions) = 1
     /\ subscriptions[1].currency \in CurrencyCode)
        => totals[subscriptions[1].currency]
               = DocumentedMonthlyEquivalent(subscriptions[1])

RECURSIVE SumFrom(_, _, _, _)
SumFrom(acc, subs, c, i) ==
    IF i > Len(subs) THEN acc
    ELSE IF subs[i].currency = c
    THEN SumFrom(NumPlus(acc, DocumentedMonthlyEquivalent(subs[i])), subs, c, i + 1)
    ELSE SumFrom(acc, subs, c, i + 1)

\* C6: the total of every registered currency is the sum, over the records
\* of that currency, of the documented monthly-equivalent of the record's
\* decimal amount, each yearly item rounded before it is added.
C6_RoundThenSum ==
    Done => \A c \in CurrencyCode :
                totals[c] = SumFrom(NumZero, subscriptions, c, 1)

\* C7: the result has exactly the keys JPY, USD and EUR, and a currency
\* without a matching record has total 0 (so the empty input gives all
\* zeros).
C7_ExactKeys ==
    Done =>
        /\ DOMAIN totals = {"JPY", "USD", "EUR"}
        /\ \A c \in {"JPY", "USD", "EUR"} :
               (\A i \in 1..Len(subscriptions) : subscriptions[i].currency # c)
                   => totals[c] = NumZero

C7_Witness ==
    /\ Done
    /\ Len(subscriptions) = 2
    /\ \A i \in 1..2 : subscriptions[i].currency = "GBP"
    /\ totals = [JPY |-> NumZero, USD |-> NumZero, EUR |-> NumZero]

IsRegistered(sub) == sub.currency \in CurrencyCode

\* C8: records with an unregistered currency are skipped: the result is the
\* one the same input gives with those records removed.
C8_UnknownSkipped ==
    Done => totals = calculateMonthlyAggregations(
                         SelectSeq(subscriptions, IsRegistered))

C8_Witness ==
    /\ Done
    /\ subscriptions = <<Sub(1000, "JPY", "monthly"), Sub(500, "GBP", "monthly"),
                         Sub(999, "USD", "monthly")>>
    /\ totals = [JPY |-> NumFromInt(1000), USD |-> NumberLiteral(999, 2),
                 EUR |-> NumZero]

\* C9: for a code that is not JPY, USD or EUR both converters behave exactly
\* as for JPY and return a number.
C9_FallbackIsJPY ==
    (currency \notin CurrencyCode /\ Len(calls) = 1) =>
        /\ ~amount.nan
        /\ amount = IF calls[1] = "toMinor"
                    THEN convertAmountToMinorUnits(
                             NumberLiteral(input.n, input.k), "JPY")
                    ELSE convertAmountFromMinorUnits(
                             NumberLiteral(input.n, input.k), "JPY")

Perms(n) ==
    {p \in [1..n -> 1..n] : \A i, j \in 1..n : i # j => p[i] # p[j]}

Permute(s, p) == [i \in 1..Len(s) |-> s[p[i]]]

OfCurrency(s, c) == SelectSeq(s, LAMBDA r : r.currency = c)

\* |x - y| <= n * 2^-52 * max(x, y): x and y agree up to the rounding of
\* n binary64 additions
WithinRounding(x, y, n) ==
    LET e  == IF x.e < y.e THEN x.e ELSE y.e
        a  == BShl(x.m, x.e - e)
        b  == BShl(y.m, y.e - e)
        hi == IF BCmp(a, b) >= 0 THEN a ELSE b
        lo == IF BCmp(a, b) >= 0 THEN b ELSE a
    IN  /\ ~x.nan
        /\ ~y.nan
        /\ BCmp(BShl(BSub(hi, lo), MantissaBits - 1), BMulSmall(hi, n)) <= 0

\* C10 as stated: every permutation of the input yields the same totals.
C10_OrderIndependent ==
    Done => \A p \in Perms(Len(subscriptions)) :
                calculateMonthlyAggregations(Permute(subscriptions, p)) = totals

\* C10: every permutation of the input yields the same keys and, per
\* currency, a total that agrees with the original one up to floating-point
\* rounding (relative difference at most n * 2^-52 for n records of that
\* currency); the totals are exactly equal when the permutation keeps the
\* relative order of the records of that currency.
C10_OrderUpToRounding ==
    Done => \A p \in Perms(Len(subscriptions)) :
                LET permuted == Permute(subscriptions, p)
                    result   == calculateMonthlyAggregations(permuted)
                IN  /\ DOMAIN result = DOMAIN totals
                    /\ \A c \in CurrencyCode :
                           /\ WithinRounding(result[c], totals[c],
                                             Len(OfCurrency(subscriptions, c)))
                           /\ OfCurrency(permuted, c) = OfCurrency(subscriptions, c)
                                  => result[c] = totals[c]

\* three records of one currency, aggregated, whose total changes in the
\* last bit when the first record is moved to the end
C10_Witness ==
    /\ Done
    /\ subscriptions = <<Sub(999, "USD", "monthly"), Sub(42, "USD", "yearly"),
                         Sub(42, "USD", "yearly")>>
    /\ totals # calculateMonthlyAggregations(
                    <<Sub(42, "USD", "yearly"), Sub(42, "USD", "yearly"),
                      Sub(999, "USD", "monthly")>>)

\* the same records with every active flag set
AllActive(subs) == [i \in DOMAIN subs |-> [subs[i] EXCEPT !.isActive = TRUE]]

\* C11: calculateMonthlyAggregations ignores the active flag: the totals of
\* a sequence of records equal the totals of the same sequence with every
\* isActive set to TRUE, so two inputs that differ only in isActive values
\* have identical totals and an inactive record counts like an active one.
C11_IgnoresActiveFlag ==
    Done => totals = calculateMonthlyAggregations(AllActive(subscriptions))

\* an inactive record and an active one were aggregated, both counted
C11_Witness ==
    /\ Done
    /\ subscriptions = << [Sub(1000, "JPY", "monthly") EXCEPT !.isActive = FALSE],
                          Sub(120000, "JPY", "yearly") >>
    /\ totals.JPY = NumFromInt(11000)

\* the decimal digits of a natural number
RECURSIVE NatDigits(_)
NatDigits(n) ==
    IF n < 10 THEN <<DigitChars[n + 1]>>
    ELSE NatDigits(n \div 10) \o <<DigitChars[(n % 10) + 1]>>

\* the digits of n as at least d digits
ZeroPadded(n, d) ==
    LET raw == NatDigits(n)
    IN  [i \in 1..(IF Len(raw) >= d THEN 0 ELSE d - Len(raw)) |-> "0"] \o raw

\* the symbol the documentation names for each registered currency: a yen
\* sign, a dollar sign, a euro sign
SymbolClass == [JPY |-> "yen", USD |-> "$", EUR |-> "euro"]

\* the rendering the documentation describes, from decimal arithmetic on the
\* stored integer: the currency's symbol, the grouped whole part of
\* m / 10^d and, for d > 0, a point and exactly d fraction digits
DocumentedRendering(m, c) ==
    LET d == Digits(c)
    IN  <<SymbolClass[c]>> \o GroupDigits(NatDigits(m \div Pow10(d)))
            \o (IF d = 0 THEN <<>> ELSE <<".">> \o ZeroPadded(m % Pow10(d), d))

\* C19: for every integer m >= 0 and registered currency c, formatCurrency(m, c)
\* is formatDisplayPrice(convertAmountFromMinorUnits(m, c), c), and that string
\* is the currency's symbol followed by m / 10^d printed with exactly d
\* fraction digits: 1000 JPY is the yen symbol and "1,000", 999 USD is the
\* dollar symbol and "9.99".
C19_FormatFromMinorUnits ==
    (formatted # NoOutput /\ formatted.fn = "formatCurrency"
        /\ currency \in CurrencyCode)
    => /\ formatted.out =
              formatDisplayPrice(convertAmountFromMinorUnits(NumFromInt(input.n),
                                                             currency), currency)
       /\ formatted.out = DocumentedRendering(input.n, currency)
       /\ (input.n = 1000 /\ currency = "JPY")
              => formatted.out = <<"yen", "1", ",", "0", "0", "0">>

\* formatCurrency(999, "USD") returned the dollar symbol and 9.99
C19_Witness ==
    /\ formatted # NoOutput
    /\ formatted.fn = "formatCurrency"
    /\ input = [n |-> 999, k |-> 0]
    /\ currency = "USD"
    /\ formatted.out = <<"$", "9", ".", "9", "9">>

\* what the same formatter returns for the same amount in JPY
AsJPY(fn, x) ==
    IF fn = "formatCurrency" THEN formatCurrency(x, "JPY")
    ELSE formatDisplayPrice(x, "JPY")

\* C20: given an unrecognized currency code, formatDisplayPrice and
\* formatCurrency raise no error and return what they return for the same
\* amount in the registry's default currency (JPY, zero decimals).
C20_UnknownFormatsAsJPY ==
    (formatted # NoOutput /\ currency \notin CurrencyCode)
    => /\ formatted.out # RangeError
       /\ formatted.out = AsJPY(formatted.fn, amount)

\* ---- the server actions ----
AddCalled == lastCall.op = "addSubscription"

DeleteCalled == lastCall.op = "deleteSubscription"

GetCalled == lastCall.op = "getSubscriptions"

\* the added row carries what the validated form carried
RowAsSubmitted(r, data) ==
    /\ r.price = NumToInt(convertAmountToMinorUnits(CoerceNumber(data.price),
                                                    data.currency))
    /\ r.userId = getCurrentUser.id
    /\ r.name = data.name
    /\ r.currency = data.currency
    /\ r.cycle = data.cycle
    /\ r.nextPayment = data.nextPayment
    /\ r.category = (IF "category" \in DOMAIN data THEN data.category
                     ELSE "general")

\* exactly one row was added to the store the call found, and it is as
\* submitted
OneRowInserted ==
    \E r \in rows \ lastCall.before :
        /\ rows = lastCall.before \cup {r}
        /\ RowAsSubmitted(r, lastCall.arg)

\* C12 as stated: a valid addSubscription call inserts exactly one row whose
\* price is convertAmountToMinorUnits(validated price, validated currency),
\* whose userId is the current principal's id and whose name, currency,
\* cycle, nextPayment and category are the validated values, and returns
\* success = true.
C12_ValidAddInserts ==
    (AddCalled /\ FieldErrors(lastCall.arg, utcOffset) = {})
    => (lastCall.response.success /\ OneRowInserted)

\* C12 amended: a valid addSubscription call whose insert statement the store
\* runs inserts exactly one such row and returns success = true; when the
\* store throws (as it does for a price beyond the integer column) no row is
\* inserted and the call returns success = false.
C12_ValidAddInsertsUnlessStoreThrows ==
    (AddCalled /\ FieldErrors(lastCall.arg, utcOffset) = {})
    => /\ lastCall.statement \in {"ran", "threw"}
       /\ lastCall.statement = "ran"
              => (lastCall.response.success /\ OneRowInserted)
       /\ lastCall.statement = "threw"
              => (~lastCall.response.success /\ rows = lastCall.before)
       /\ ~FitsIntegerColumn(convertAmountToMinorUnits(
                CoerceNumber(lastCall.arg.price), lastCall.arg.currency))
              => lastCall.statement = "threw"

\* 9.99 USD was added with its category and stored as 999 for the demo user
C12_Witness ==
    /\ AddCalled
    /\ lastCall.arg = BaseForm
    /\ lastCall.response.success
    /\ \E r \in rows \ lastCall.before :
          /\ r.price = 999 /\ r.currency = "USD" /\ r.category = "video"
          /\ r.userId = "user_demo_123"
          /\ rows = lastCall.before \cup {r}

\* the inputs the documentation calls invalid, on the decimal digits typed
DocumentedInvalid(data) ==
    \/ data.price.sign = "-"
    \/ (data.price.sign = "+" /\
           (IF data.price.k >= 2 THEN data.price.n < Pow10(data.price.k - 2)
            ELSE data.price.n = 0))
    \/ data.currency \notin {"JPY", "USD", "EUR"}
    \/ data.cycle \notin {"monthly", "yearly"}
    \/ data.name = ""
    \/ ~IsDateString(data.nextPayment)

\* C13: input that fails validation (price below 0.01 or negative, currency
\* or cycle outside its set, empty name, invalid date) is rejected before any
\* conversion or storage access: success = false with fieldErrors, the store
\* is untouched and unchanged, convertAmountToMinorUnits was not called.
C13_InvalidRejectedEarly ==
    (AddCalled /\ DocumentedInvalid(lastCall.arg))
    => /\ ~lastCall.response.success
       /\ "fieldErrors" \in DOMAIN lastCall.response
       /\ lastCall.response.fieldErrors # {}
       /\ rows = lastCall.before
       /\ lastCall.statement = "untouched"
       /\ lastCall.converted = <<>>

\* a price of 0.005 was rejected with a price field error
C13_Witness ==
    /\ AddCalled
    /\ lastCall.arg = [BaseForm EXCEPT !.price = Price("+", 5, 3)]
    /\ lastCall.response = [success |-> FALSE, error |-> "check-input",
                            fieldErrors |-> {"price"}]
    /\ rows = lastCall.before
    /\ lastCall.converted = <<>>

\* C14: deleteSubscription(id) removes at most one row and only a row whose
\* id is id and whose userId is the caller's; no call of any server action
\* removes a row of another user.
C14_DeleteOwnRowOnly ==
    /\ DeleteCalled
          => /\ rows \subseteq lastCall.before
             /\ Cardinality(lastCall.before \ rows) <= 1
             /\ \A r \in lastCall.before \ rows :
                    r.id = lastCall.arg /\ r.userId = getCurrentUser.id
    /\ lastCall # NoCall
          => \A r \in lastCall.before \ rows : r.userId = getCurrentUser.id

\* the id of another user's row was passed and the row is still there
C14_Witness ==
    /\ DeleteCalled
    /\ lastCall.arg = 102
    /\ lastCall.statement = "ran"
    /\ ~lastCall.response.success
    /\ \E r \in rows : r.id = 102 /\ r.userId = "user_other"
    /\ rows = lastCall.before

\* C15: getSubscriptions returns exactly the rows of the current principal,
\* each once, ordered by nextPayment descending, and each with exactly the
\* columns id, name, price, currency, cycle, nextPayment, category, isActive
\* holding the row's values.
C15_OwnRowsOnlyOrdered ==
    (GetCalled /\ lastCall.response.success)
    => LET data == lastCall.response.data
           own  == {r \in rows : r.userId = getCurrentUser.id}
       IN  /\ {data[i].id : i \in DOMAIN data} = {r.id : r \in own}
           /\ Len(data) = Cardinality(own)
           /\ \A i, j \in DOMAIN data :
                  i < j => DateKey(data[i].nextPayment) >= DateKey(data[j].nextPayment)
           /\ \A i \in DOMAIN data :
                  /\ DOMAIN data[i] = PublicColumns
                  /\ \E r \in own : \A c \in PublicColumns : data[i][c] = r[c]

\* two own rows came back, the later date first, while the store also held
\* a row of another user
C15_Witness ==
    /\ GetCalled
    /\ lastCall.response.success
    /\ Len(lastCall.response.data) = 2
    /\ lastCall.response.data[1].nextPayment = DateString(2024, 2, 29)
    /\ lastCall.response.data[2].nextPayment = DateString(2001, 1, 1)
    /\ \E r \in rows : r.userId = "user_other"

\* C17: the validator accepts a nextPayment value exactly when it is a valid
\* YYYY-MM-DD date in the year 2000 or later: the response carries a
\* nextPayment field error exactly when the value is no such date.
C17_DateFrom2000 ==
    AddCalled
    => (("fieldErrors" \in DOMAIN lastCall.response
            /\ "nextPayment" \in lastCall.response.fieldErrors)
        <=> ~(IsDateString(lastCall.arg.nextPayment)
                /\ lastCall.arg.nextPayment.y >= 2000))

\* C18: revalidatePath is called, with the path "/", exactly by an
\* addSubscription or deleteSubscription call that succeeded, which is one
\* whose statement ran and changed the store; not when validation failed,
\* the store threw or the delete matched no row.
C18_RevalidateAfterSuccessOnly ==
    lastCall # NoCall
    => /\ lastCall.revalidated \in {<<>>, <<"/">>}
       /\ lastCall.revalidated = <<"/">>
              <=> (~GetCalled /\ lastCall.response.success)
       /\ lastCall.revalidated = <<"/">>
              => (lastCall.statement = "ran" /\ rows # lastCall.before)
       /\ (~GetCalled /\ lastCall.statement = "ran" /\ rows # lastCall.before)
              => lastCall.revalidated = <<"/">>

\* a delete that matched no row revalidated nothing
C18_Witness ==
    /\ DeleteCalled
    /\ lastCall.statement = "ran"
    /\ lastCall.response = [success |-> FALSE, error |-> "not-found"]
    /\ lastCall.revalidated = <<>>
    /\ lastCall.arg = 999

\* ---- the list ----
Displayed(id) ==
    \E i \in DOMAIN optimisticSubscriptions : optimisticSubscriptions[i].id = id

\* C16: from the moment the user confirms the deletion of a row until the
\* response has been handled the row is not displayed, whether or not the
\* server has answered; once a failure has been handled the row is displayed
\* again and the last toast is an error toast; once a success has been
\* handled the row is not displayed and the last toast is a success toast.
C16_OptimisticDelete ==
    /\ request.status \in {"sent", "answered"} => ~Displayed(request.id)
    /\ request.status = "done"
          => /\ toasts # <<>>
             /\ IF request.result.success
                THEN ~Displayed(request.id) /\ toasts[Len(toasts)] = "success"
                ELSE Displayed(request.id) /\ toasts[Len(toasts)] = "error"

\* the store threw on the delete of row 103: the row, hidden while the
\* request was in flight, is displayed again and an error toast was raised
C16_Witness ==
    /\ request.status = "done"
    /\ request.id = 103
    /\ request.result = [success |-> FALSE, error |-> "delete-error"]
    /\ Displayed(103)
    /\ toasts = <<"error">>
    /\ optimistic = <<>>

\* ---- additivity of the aggregation ----
\* the monthly-equivalent the code computes for one record
MonthlyEquivalent(sub) ==
    LET actualPrice == convertAmountFromMinorUnits(NumFromInt(sub.price),
                                                   sub.currency)
    IN  IF sub.cycle = "yearly" THEN YearlyToMonthly(actualPrice)
        ELSE actualPrice

\* the input cut after its k-th record
Front(k) == SubSeq(subscriptions, 1, k)

Back(k) == SubSeq(subscriptions, k + 1, Len(subscriptions))

\* the aggregated input is some input with the record r appended, r of a
\* registered currency: against the totals of the input without r, only the
\* total of r's currency differs, it is the old total plus r's
\* monthly-equivalent, a number that is not negative, and it is not less
\* than the old total
AppendIsLocal ==
    (subscriptions # <<>> /\ IsRegistered(subscriptions[Len(subscriptions)])) =>
        LET r   == subscriptions[Len(subscriptions)]
            old == calculateMonthlyAggregations(Front(Len(subscriptions) - 1))
        IN  /\ DOMAIN totals = DOMAIN old
            /\ \A c \in DOMAIN old \ {r.currency} : totals[c] = old[c]
            /\ ~MonthlyEquivalent(r).nan
            /\ totals[r.currency]
                  = NumPlus(old[r.currency], MonthlyEquivalent(r))
            /\ ~NumLess(totals[r.currency], old[r.currency])

\* C29 as stated: appending a record of a registered currency changes only
\* that currency's total, by the record's monthly-equivalent; and the
\* totals of a concatenation A ++ B are, per currency, the sums of the
\* totals of A and of B.
C29_Additive ==
    Done =>
        /\ AppendIsLocal
        /\ \A k \in 0..Len(subscriptions) :
               LET ofA == calculateMonthlyAggregations(Front(k))
                   ofB == calculateMonthlyAggregations(Back(k))
               IN  \A c \in CurrencyCode :
                       totals[c] = NumPlus(ofA[c], ofB[c])

\* C29: appending a record of a registered currency c changes only the
\* total of c, to the binary64 sum of the old total and the record's
\* monthly-equivalent; the totals of a concatenation A ++ B agree with the
\* per-currency sums of the totals of A and of B up to floating-point
\* rounding, and are equal to them when B holds at most one record of that
\* currency.
C29_AdditiveUpToRounding ==
    Done =>
        /\ AppendIsLocal
        /\ \A k \in 0..Len(subscriptions) :
               LET ofA == calculateMonthlyAggregations(Front(k))
                   ofB == calculateMonthlyAggregations(Back(k))
               IN  \A c \in CurrencyCode :
                       /\ WithinRounding(totals[c], NumPlus(ofA[c], ofB[c]),
                                         Len(OfCurrency(subscriptions, c)))
                       /\ Len(OfCurrency(Back(k), c)) <= 1 =>
                              totals[c] = NumPlus(ofA[c], ofB[c])

\* 9.99 USD monthly followed by two yearly records of 0.03 USD a month:
\* the total differs in the last bit from 9.99 + (0.03 + 0.03)
C29_Witness ==
    /\ Done
    /\ subscriptions = <<Sub(999, "USD", "monthly"), Sub(42, "USD", "yearly"),
                         Sub(42, "USD", "yearly")>>
    /\ totals.USD # NumPlus(calculateMonthlyAggregations(Front(1)).USD,
                            calculateMonthlyAggregations(Back(1)).USD)
    /\ AppendIsLocal

\* ---- rows and responses of the server actions ----
\* the rows addSubscription created in this run: their ids are the ticks of
\* the store's clock
CreatedRows == {r \in rows : r.id \in 1..now}

\* C22: after any sequence of addSubscription and deleteSubscription calls
\* every row created through addSubscription has an integer price >= 0, a
\* currency in {JPY, USD, EUR}, a cycle in {monthly, yearly} and the userId
\* of the principal that created it.
C22_StoredRecordInvariant ==
    \A r \in CreatedRows :
        /\ r.price \in Nat
        /\ r.currency \in {"JPY", "USD", "EUR"}
        /\ r.cycle \in {"monthly", "yearly"}
        /\ r.userId = getCurrentUser.id

\* two rows were created, the first was deleted again and the second, a
\* yearly JPY row of price 0, is in the store
C22_Witness ==
    /\ DeleteCalled
    /\ lastCall.arg = 1
    /\ lastCall.response.success
    /\ \E r \in CreatedRows :
          r.id = 2 /\ r.currency = "JPY" /\ r.cycle = "yearly" /\ r.price = 0

\* the call's id matches a row the current principal owned in the store the
\* call found
MatchesOwnRow ==
    \E r \in lastCall.before :
        r.id = lastCall.arg /\ r.userId = getCurrentUser.id

\* C23: deleteSubscription(id) with an id that matches no row of the
\* current principal (unknown, already deleted, or another user's) answers
\* success = false with an error message and leaves the store as it was;
\* and no id has been answered success = true twice.
C23_DeleteMissingFails ==
    /\ (DeleteCalled /\ ~MatchesOwnRow) =>
          /\ ~lastCall.response.success
          /\ "error" \in DOMAIN lastCall.response
          /\ rows = lastCall.before
    /\ ~deleted.twice

\* row 101 was deleted, and a second deleteSubscription(101) found nothing
C23_Witness ==
    /\ DeleteCalled
    /\ lastCall.arg = 101
    /\ deleted.ids = {101}
    /\ lastCall.statement = "ran"
    /\ lastCall.response = [success |-> FALSE, error |-> "not-found"]

\* C24: every call of the three server actions ends with an ActionResponse;
\* when the store threw on the call's statement (for a reason of its own,
\* or because the converted price does not fit the integer column) the
\* response is success = false with an error message, a getSubscriptions
\* response then has data = [], and the store is as the call found it.
C24_NeverThrows ==
    lastCall # NoCall =>
        /\ "success" \in DOMAIN lastCall.response
        /\ lastCall.response.success \in BOOLEAN
        /\ lastCall.statement = "threw" =>
              /\ ~lastCall.response.success
              /\ "error" \in DOMAIN lastCall.response
              /\ rows = lastCall.before
              /\ GetCalled =>
                    /\ "data" \in DOMAIN lastCall.response
                    /\ lastCall.response.data = <<>>

\* a valid form with price 2147483647 USD: the insert was rejected and the
\* action answered with the save error
C24_Witness ==
    /\ AddCalled
    /\ lastCall.arg.price = Price("+", 2147483647, 0)
    /\ lastCall.arg.currency = "USD"
    /\ lastCall.statement = "threw"
    /\ lastCall.response = [success |-> FALSE, error |-> "save-failed"]
    /\ rows = lastCall.before

\* C28: a row inserted by addSubscription never has price 0: every amount
\* the validator accepts is stored as at least 1 minor unit.
C28_NeverStoredAsZero ==
    \A r \in CreatedRows : r.price >= 1

\* ---- the delete dialog ----
\* C25: the list never has more than one deleteSubscription call
\* outstanding, and while one is outstanding the dialog's confirm and
\* cancel buttons are disabled, whatever the user clicks, opens or
\* dismisses.
C25_OneDeleteOutstanding ==
    /\ outstanding <= 1
    /\ outstanding = 1 => Disabled

\* while the delete of row 101 is in flight the user has dismissed the
\* dialog and opened it for row 103: its buttons are disabled
C25_Witness ==
    /\ outstanding = 1
    /\ request.status = "sent"
    /\ request.id = 101
    /\ DialogOpen
    /\ deleteTarget.id = 103
    /\ toasts = <<"error">>

\* C30: when the response to the delete of one row is handled while the
\* dialog names another row, that row stays the delete target and its
\* dialog stays open.
C30_CompletionKeepsOtherTarget ==
    [][(/\ ReceiveResult
        /\ deleteTarget # Null
        /\ deleteTarget.id # request.id) => deleteTarget' = deleteTarget]_vars

\* ---- the add dialog ----
\* C26: when the response of addSubscription is handled, on success the
\* dialog is closed and the form holds its defaults (empty name, price 0,
\* JPY, monthly, the day it is now, general) without errors; on failure the
\* dialog is open or closed as it was, the values are as they were, every
\* field of the returned field errors has an error, and the error message
\* is the newest toast.
C26_AddDialogOutcome ==
    [][ReceiveAdd =>
          IF submission.res.success
          THEN /\ open' = FALSE
               /\ form'.values = [name        |-> "",
                                  price       |-> Price("+", 0, 0),
                                  currency    |-> "JPY",
                                  cycle       |-> "monthly",
                                  nextPayment |-> browser.today,
                                  category    |-> "general"]
               /\ form'.errors = {}
          ELSE /\ open' = open
               /\ form'.values = form.values
               /\ "fieldErrors" \in DOMAIN submission.res =>
                      submission.res.fieldErrors \subseteq form'.errors
               /\ toasts' = Append(toasts, submission.res.error)]_vars

\* the server, west of UTC, rejected the date 2001-01-01 that the browser's
\* resolver had accepted: the dialog is open with the values as typed, the
\* date field has an error and the message was shown as a toast
C26_Witness ==
    /\ submission.status = "done"
    /\ submission.res = [success |-> FALSE, error |-> "check-input",
                         fieldErrors |-> {"nextPayment"}]
    /\ open
    /\ form.values = submission.values
    /\ form.values.nextPayment = DateString(2001, 1, 1)
    /\ form.errors = {"nextPayment"}
    /\ toasts = <<"check-input">>

\* ---- the db module ----
Configured == "DATABASE_URL" \in DOMAIN env /\ env.DATABASE_URL # ""

\* C21: when DATABASE_URL is not set (or is empty), every evaluation of the
\* db module throws: no postgres client has been constructed, none is on
\* the global object and no evaluation exported a db, so there is no db for
\* a server action to run against.
C21_FailFast ==
    ~Configured =>
        /\ \A i \in DOMAIN evaluations : evaluations[i] = [threw |-> TRUE]
        /\ constructed = <<>>
        /\ conn = Undefined

\* a development process without DATABASE_URL, its other settings in place,
\* has tried to load the module twice
C21_Witness ==
    /\ DOMAIN env = {"NODE_ENV", "DB_MAX_CONNECTIONS"}
    /\ env.NODE_ENV = "development"
    /\ evaluations = <<[threw |-> TRUE], [threw |-> TRUE]>>

\* C27: in a process that is not in production, however often the module
\* is evaluated, at most one client is constructed, it is the one on the
\* global object, and every evaluation that exports a db binds it to that
\* client; in production the global object never holds a client.
C27_ConnectionSingleton ==
    /\ ~IsProduction(env) =>
          /\ Len(constructed) <= 1
          /\ \A i \in DOMAIN evaluations :
                 ~evaluations[i].threw =>
                     /\ constructed # <<>>
                     /\ evaluations[i].db.client = constructed[1]
                     /\ conn = constructed[1]
    /\ IsProduction(env) => conn = Undefined

\* a test process has evaluated the module three times: one client, bound
\* to all three exports
C27_Witness ==
    /\ Configured
    /\ "NODE_ENV" \in DOMAIN env
    /\ env.NODE_ENV = "test"
    /\ Len(evaluations) = 3
    /\ Len(constructed) = 1
    /\ \A i \in 1..3 : evaluations[i].db.client = constructed[1]

====
